---- MODULE Spec2Model ----
(***************************************************************************)
(* A model of the chess position core of raklaptudirm/chess-rs: the board  *)
(* (mailbox + bitboards + metadata + history), make_move / undo_move, the  *)
(* legal move generator and the perft driver.                              *)
(*                                                                         *)
(* Bitboards are sets of squares (bit i <=> square i), squares are the     *)
(* integers of enum Square (A8 = 0 .. H1 = 63, None = 64), pieces, colors  *)
(* and flags are the integers of their enums, moves are the 16-bit         *)
(* integers of struct Move.  A Zobrist hash is the set of the keys XORed   *)
(* into it (XOR of independent keys = symmetric difference).               *)
(***************************************************************************)
EXTENDS Integers, FiniteSets, Sequences, TLC

VARIABLES board, made, last_op, pf, parsed, call

vars == <<board, made, last_op, pf, parsed, call>>

(***************************************************************************)
(* Bounds of the model.                                                    *)
(***************************************************************************)
MaxMade == 2

(***************************************************************************)
(* Enumerations: square.rs, piece.rs, move.rs and the Color enum.          *)
(***************************************************************************)
SquareN == 64
SquareNone == 64
FileN == 8
FileNone == 8
RankN == 8
RankNone == 8
PieceN == 6
ColorN == 2

White == 0
Black == 1
ColorNone == 2

Pawn == 0
Knight == 1
Bishop == 2
Rook == 3
Queen == 4
King == 5
PieceNone == 6

CPNone == 12

Normal == 0
Castle == 1
Promotion == 2
EnPassant == 3

Squares == 0 .. (SquareN - 1)

Abs(x) == IF x < 0 THEN -x ELSE x

Max2(x, y) == IF x < y THEN y ELSE x

SquareNew(file, rank) == rank * FileN + file

FileOf(s) == IF s = SquareNone THEN FileNone ELSE s % FileN

RankOf(s) == s \div RankN

\* Squares named in board.rs (castling::Info::from_squares) and in the
\* castling targets of the specification (C1/G1/C8/G8, D1/F1/D8/F8).
E1 == 60
E8 == 4
FileA == 0
FileH == 7

Not(color) == IF color = White THEN Black ELSE IF color = Black THEN White ELSE ColorNone

Distance(a, b) == Max2(Abs(RankOf(a) - RankOf(b)), Abs(FileOf(a) - FileOf(b)))

North(s) == s - 8

South(s) == s + 8

SquareUp(s, us) == IF us = White THEN North(s) ELSE IF us = Black THEN South(s) ELSE s

SquareDown(s, us) == IF us = White THEN South(s) ELSE IF us = Black THEN North(s) ELSE s

RankRelative(rank, color) == IF color = White THEN rank ELSE IF color = Black THEN 7 - rank ELSE RankNone

RankEighth == 0
RankThird == 5
RankFirst == 7

(***************************************************************************)
(* ColoredPiece: piece.rs.                                                 *)
(***************************************************************************)
ColoredPieceNew(piece, color) == color * 2 + piece

PieceOf(cp) == IF cp = CPNone THEN PieceNone ELSE cp % PieceN

ColorOf(cp) == cp \div PieceN

(***************************************************************************)
(* Move: move.rs.  source: bits 0-5, target: bits 6-11, promotion - 1:     *)
(* bits 12-13, flag: bits 14-15.                                           *)
(***************************************************************************)
MoveNULL == 0

\* Mutant of MoveNew: the target field starts one bit too low.
MoveNew_overlap(source, target, mvflag) == mvflag * 16384 + source + target * 32

MoveNew(source, target, mvflag) == mvflag * 16384 + source + target * 64

MoveNewWithPromotion(source, target, promotion) ==
    (promotion - 1) * 4096 + Promotion * 16384 + source + target * 64

MoveSource(m) == m % 64

MoveTarget(m) == (m \div 64) % 64

MovePromot(m) == ((m \div 4096) % 4) + 1

MoveFlags(m) == (m \div 16384) % 4

(***************************************************************************)
(* BitBoard primitives and attack tables (bitboard.rs, moves.rs are not    *)
(* part of the excerpt: modelled from the specification, sections 3, 4.1). *)
(***************************************************************************)
EMPTY == {}

UNIVERSE == Squares

\* lsb(): the lowest-indexed square; Square::None on the empty set.
Lsb(bb) == IF bb = {} THEN SquareNone ELSE CHOOSE s \in bb : \A t \in bb : s <= t

BBUp(bb, us) ==
    IF us = White THEN {s - 8 : s \in {x \in bb : x >= 8}}
    ELSE IF us = Black THEN {s + 8 : s \in {x \in bb : x < 56}}
    ELSE bb

BBRank(rank) == {s \in Squares : RankOf(s) = rank}

\* iteration order of a BitBoard: ascending square index.
BBSeq(bb) ==
    [i \in 1 .. Cardinality(bb) |-> CHOOSE s \in bb : Cardinality({t \in bb : t < s}) = i - 1]

Sgn(x) == IF x < 0 THEN -1 ELSE IF x > 0 THEN 1 ELSE 0

OnLine(a, b) ==
    LET df == FileOf(b) - FileOf(a)
        dr == RankOf(b) - RankOf(a)
    IN  a # b /\ (df = 0 \/ dr = 0)

OnDiag(a, b) ==
    LET df == FileOf(b) - FileOf(a)
        dr == RankOf(b) - RankOf(a)
    IN  a # b /\ Abs(df) = Abs(dr)

\* BETWEEN[s1][s2]: the squares strictly between s1 and s2 along a rank,
\* file or diagonal, empty if they are not colinear (or one is None).
BetweenT ==
    [a \in 0 .. SquareN |-> [b \in 0 .. SquareN |->
        IF a = SquareNone \/ b = SquareNone THEN {}
        ELSE IF ~(OnLine(a, b) \/ OnDiag(a, b)) THEN {}
        ELSE LET sf == Sgn(FileOf(b) - FileOf(a))
                 sr == Sgn(RankOf(b) - RankOf(a))
                 n  == Distance(a, b)
             IN  {SquareNew(FileOf(a) + k * sf, RankOf(a) + k * sr) : k \in 1 .. (n - 1)}]]

Between(a, b) == BetweenT[a][b]

KnightT ==
    [s \in Squares |-> {t \in Squares :
        {Abs(FileOf(s) - FileOf(t)), Abs(RankOf(s) - RankOf(t))} = {1, 2}}]

KingT == [s \in Squares |-> {t \in Squares : Distance(s, t) = 1}]

PawnAttacksT ==
    [c \in {White, Black} |-> [s \in Squares |-> {t \in Squares :
        /\ Abs(FileOf(s) - FileOf(t)) = 1
        /\ RankOf(t) = RankOf(s) + (IF c = White THEN -1 ELSE 1)}]]

RookLineT == [s \in Squares |-> {t \in Squares : OnLine(s, t)}]

BishopLineT == [s \in Squares |-> {t \in Squares : OnDiag(s, t)}]

knight(s) == KnightT[s]

king(s) == KingT[s]

pawn_attacks(s, color) == PawnAttacksT[color][s]

\* Slider attacks by ray scan: the first blocker of each ray is included.
rook(s, occ) == {t \in RookLineT[s] : BetweenT[s][t] \cap occ = {}}

bishop(s, occ) == {t \in BishopLineT[s] : BetweenT[s][t] \cap occ = {}}

queen(s, occ) == rook(s, occ) \cup bishop(s, occ)

(***************************************************************************)
(* Zobrist keys (zobrist.rs is not part of the excerpt: modelled from the  *)
(* specification, section 4.2).  Keys are distinct identifiers.            *)
(***************************************************************************)
piece_square_key(piece, square) == piece * SquareN + square

side_to_move_key == 1000

en_passant_key(square) == 1001 + square

Xor(hash, key) == IF key \in hash THEN hash \ {key} ELSE hash \cup {key}

(***************************************************************************)
(* Castling metadata (castling.rs is not part of the excerpt: modelled     *)
(* from the specification, sections 3, 4.3, 4.7 and its uses in board.rs). *)
(* A SideColor is color * 2 + side, side H = 0, side A = 1.                *)
(***************************************************************************)
SideH == 0
SideA == 1

SideColor(color, side) == color * 2 + side

RightsAll == {SideColor(White, SideH), SideColor(White, SideA),
              SideColor(Black, SideH), SideColor(Black, SideA)}

RightsIndex(rights) ==
    (IF 0 \in rights THEN 1 ELSE 0) + (IF 1 \in rights THEN 2 ELSE 0)
    + (IF 2 \in rights THEN 4 ELSE 0) + (IF 3 \in rights THEN 8 ELSE 0)

castling_rights_key(rights) == 2000 + RightsIndex(rights)

\* castling::Info::from_squares(E1, H, A, E8, H, A): board.rs 184-191.
InfoKing(color) == IF color = White THEN E1 ELSE E8

InfoRook(sc) ==
    LET k == InfoKing(sc \div 2)
    IN  SquareNew(IF sc % 2 = SideH THEN FileH ELSE FileA, RankOf(k))

InfoPath(sc) == Between(InfoKing(sc \div 2), InfoRook(sc))

get_updates(square) ==
    {sc \in RightsAll : square = InfoKing(sc \div 2) \/ square = InfoRook(sc)}

SideColorFromSqs(source, target) ==
    SideColor(IF RankOf(source) = RankFirst THEN White ELSE Black,
              IF source < target THEN SideH ELSE SideA)

\* (king target, rook target): G/F file on the H side, C/D file on the A side.
get_targets(sc) ==
    LET r == RankOf(InfoKing(sc \div 2))
    IN  IF sc % 2 = SideH THEN <<SquareNew(6, r), SquareNew(5, r)>>
        ELSE <<SquareNew(2, r), SquareNew(3, r)>>

(***************************************************************************)
(* Board: board.rs.  The record holds the fields of struct Board that      *)
(* outlive a call; `rights` is castling_square_info.rights.  `history` is  *)
(* the 1024-entry array, stored sparsely: a slot that was never written    *)
(* holds BoardState::default().  `panicked` records that the operation     *)
(* aborted (index out of bounds on a BitBoard or history array, integer    *)
(* underflow): the process is gone and the board is not used again.        *)
(* `overflowed` records that an addition, subtraction or multiplication of *)
(* the last operation left the range of its u8 or u16: a build with        *)
(* overflow checks aborts there, a build without them keeps the wrapped    *)
(* value, which is the value the record holds.                             *)
(***************************************************************************)
HistoryN == 1024

BoardStateDefault ==
    [played_move |-> MoveNULL, captured_piece |-> CPNone, castling_r |-> {},
     enp_target |-> SquareNone, draw_clock |-> 0, hash |-> {}]

HistoryAt(b, i) == IF i \in DOMAIN b.history THEN b.history[i] ELSE BoardStateDefault

HistorySet(h, i, v) == [j \in (DOMAIN h) \cup {i} |-> IF j = i THEN v ELSE h[j]]

Panic(b) == [b EXCEPT !.panicked = TRUE]

piece_color_bb(b, piece, color) == b.piece_bbs[piece] \cap b.color_bbs[color]

\* Mutant of insert_piece: the color bitboard is not updated.
insert_piece_nocolor(b, square, piece) ==
    IF piece = CPNone \/ square \notin Squares THEN Panic(b)
    ELSE [b EXCEPT !.mailbox[square] = piece,
                   !.piece_bbs[PieceOf(piece)] = @ \cup {square},
                   !.hash = Xor(@, piece_square_key(piece, square))]

insert_piece(b, square, piece) ==
    IF piece = CPNone \/ square \notin Squares THEN Panic(b)
    ELSE [b EXCEPT !.mailbox[square] = piece,
                   !.piece_bbs[PieceOf(piece)] = @ \cup {square},
                   !.color_bbs[ColorOf(piece)] = @ \cup {square},
                   !.hash = Xor(@, piece_square_key(piece, square))]

remove_piece(b, square) ==
    IF square \notin Squares THEN Panic(b)
    ELSE LET piece == b.mailbox[square]
         IN  IF piece = CPNone THEN Panic(b)
             ELSE [b EXCEPT !.mailbox[square] = CPNone,
                            !.piece_bbs[PieceOf(piece)] = @ \ {square},
                            !.color_bbs[ColorOf(piece)] = @ \ {square},
                            !.hash = Xor(@, piece_square_key(piece, square))]

RefreshSides(b) ==
    [b EXCEPT !.friends = b.color_bbs[b.side_to_mv],
              !.enemies = b.color_bbs[Not(b.side_to_mv)],
              !.occupied = b.color_bbs[b.side_to_mv] \cup b.color_bbs[Not(b.side_to_mv)]]

\* Mutant of generate_check_masks: queens are left out of the diagonal
\* checkers.
generate_check_masks_noqueen(b) ==
    LET kingsq   == Lsb(b.piece_bbs[King] \cap b.friends)
        blockers == b.occupied \ {kingsq}
        p == b.piece_bbs[Pawn] \cap b.enemies
        n == b.piece_bbs[Knight] \cap b.enemies
        bi == b.piece_bbs[Bishop] \cap b.enemies
        r == b.piece_bbs[Rook] \cap b.enemies
        q == b.piece_bbs[Queen] \cap b.enemies
        checking_p == p \cap pawn_attacks(kingsq, b.side_to_mv)
        checking_n == n \cap knight(kingsq)
        checking_b == bi \cap bishop(kingsq, blockers)
        checking_r == (r \cup q) \cap rook(kingsq, blockers)
        checkers == checking_p \cup checking_n \cup checking_b \cup checking_r
        nm == Cardinality(checkers)
    IN  IF kingsq = SquareNone THEN Panic(b)
        ELSE [b EXCEPT
            !.checkers = checkers,
            !.check_nm = nm,
            !.check_mask =
                IF nm = 2 THEN EMPTY
                ELSE IF nm = 0 THEN UNIVERSE
                ELSE checking_p \cup checking_n
                     \cup checking_b \cup Between(kingsq, Lsb(checking_b))
                     \cup checking_r \cup Between(kingsq, Lsb(checking_r))]

\* Mutant of generate_check_masks: the attack ray of a sliding checker is
\* left out of the check mask.
generate_check_masks_noray(b) ==
    LET kingsq   == Lsb(b.piece_bbs[King] \cap b.friends)
        blockers == b.occupied \ {kingsq}
        p == b.piece_bbs[Pawn] \cap b.enemies
        n == b.piece_bbs[Knight] \cap b.enemies
        bi == b.piece_bbs[Bishop] \cap b.enemies
        r == b.piece_bbs[Rook] \cap b.enemies
        q == b.piece_bbs[Queen] \cap b.enemies
        checking_p == p \cap pawn_attacks(kingsq, b.side_to_mv)
        checking_n == n \cap knight(kingsq)
        checking_b == (bi \cup q) \cap bishop(kingsq, blockers)
        checking_r == (r \cup q) \cap rook(kingsq, blockers)
        checkers == checking_p \cup checking_n \cup checking_b \cup checking_r
        nm == Cardinality(checkers)
    IN  IF kingsq = SquareNone THEN Panic(b)
        ELSE [b EXCEPT
            !.checkers = checkers,
            !.check_nm = nm,
            !.check_mask =
                IF nm = 2 THEN EMPTY
                ELSE IF nm = 0 THEN UNIVERSE
                ELSE checking_p \cup checking_n
                     \cup checking_b \cup checking_r]

generate_check_masks(b) ==
    LET kingsq   == Lsb(b.piece_bbs[King] \cap b.friends)
        blockers == b.occupied \ {kingsq}
        p == b.piece_bbs[Pawn] \cap b.enemies
        n == b.piece_bbs[Knight] \cap b.enemies
        bi == b.piece_bbs[Bishop] \cap b.enemies
        r == b.piece_bbs[Rook] \cap b.enemies
        q == b.piece_bbs[Queen] \cap b.enemies
        checking_p == p \cap pawn_attacks(kingsq, b.side_to_mv)
        checking_n == n \cap knight(kingsq)
        checking_b == (bi \cup q) \cap bishop(kingsq, blockers)
        checking_r == (r \cup q) \cap rook(kingsq, blockers)
        checkers == checking_p \cup checking_n \cup checking_b \cup checking_r
        nm == Cardinality(checkers)
    IN  IF kingsq = SquareNone THEN Panic(b)
        ELSE [b EXCEPT
            !.checkers = checkers,
            !.check_nm = nm,
            !.check_mask =
                IF nm = 2 THEN EMPTY
                ELSE IF nm = 0 THEN UNIVERSE
                ELSE checking_p \cup checking_n
                     \cup checking_b \cup Between(kingsq, Lsb(checking_b))
                     \cup checking_r \cup Between(kingsq, Lsb(checking_r))]

\* FEN (fen.rs 21-28) -> Board (board.rs 163-236).
\* Mutant of BoardFromFEN: the side to move is not added to the ply count.
BoardFromFEN_noside(fen) ==
    LET occ == {s \in Squares : fen.position[s] # CPNone}
        b0 == [mailbox |-> fen.position,
               piece_bbs |-> [p \in 0 .. (PieceN - 1) |->
                                 {s \in occ : PieceOf(fen.position[s]) = p}],
               color_bbs |-> [c \in 0 .. (ColorN - 1) |->
                                 {s \in occ : ColorOf(fen.position[s]) = c}],
               friends |-> EMPTY, enemies |-> EMPTY, occupied |-> EMPTY,
               checkers |-> EMPTY, check_nm |-> 0,
               side_to_mv |-> fen.side_to_move,
               plys_count |-> ((fen.full_move_count - 1) * 2) % (2 ^ 16),
               draw_clock |-> fen.half_move_clock,
               enp_target |-> fen.en_pass_square,
               rights |-> fen.castling_rights,
               hash |-> LET h0 == {castling_rights_key(fen.castling_rights)}
                                  \cup {piece_square_key(fen.position[s], s) : s \in occ}
                            h1 == IF fen.side_to_move = Black
                                  THEN Xor(h0, side_to_move_key) ELSE h0
                        IN  IF fen.en_pass_square # SquareNone
                            THEN Xor(h1, en_passant_key(fen.en_pass_square)) ELSE h1,
               history |-> <<>>,
               check_mask |-> EMPTY,
               overflowed |-> (fen.full_move_count - 1) * 2 + fen.side_to_move
                                  \notin 0 .. (2 ^ 16 - 1),
               panicked |-> FALSE]
    IN  generate_check_masks(RefreshSides(b0))

BoardFromFEN(fen) ==
    LET occ == {s \in Squares : fen.position[s] # CPNone}
        b0 == [mailbox |-> fen.position,
               piece_bbs |-> [p \in 0 .. (PieceN - 1) |->
                                 {s \in occ : PieceOf(fen.position[s]) = p}],
               color_bbs |-> [c \in 0 .. (ColorN - 1) |->
                                 {s \in occ : ColorOf(fen.position[s]) = c}],
               friends |-> EMPTY, enemies |-> EMPTY, occupied |-> EMPTY,
               checkers |-> EMPTY, check_nm |-> 0,
               side_to_mv |-> fen.side_to_move,
               plys_count |-> ((fen.full_move_count - 1) * 2 + fen.side_to_move)
                                  % (2 ^ 16),
               draw_clock |-> fen.half_move_clock,
               enp_target |-> fen.en_pass_square,
               rights |-> fen.castling_rights,
               hash |-> LET h0 == {castling_rights_key(fen.castling_rights)}
                                  \cup {piece_square_key(fen.position[s], s) : s \in occ}
                            h1 == IF fen.side_to_move = Black
                                  THEN Xor(h0, side_to_move_key) ELSE h0
                        IN  IF fen.en_pass_square # SquareNone
                            THEN Xor(h1, en_passant_key(fen.en_pass_square)) ELSE h1,
               history |-> <<>>,
               check_mask |-> EMPTY,
               overflowed |-> (fen.full_move_count - 1) * 2 + fen.side_to_move
                                  \notin 0 .. (2 ^ 16 - 1),
               panicked |-> FALSE]
    IN  generate_check_masks(RefreshSides(b0))

\* Mutant of make_move: the en-passant target is set on every double push.
make_move_epalways(board_, chessmove) ==
    LET source == MoveSource(chessmove)
        target == MoveTarget(chessmove)
        flag == MoveFlags(chessmove)
        us == board_.side_to_mv
        source_piece == board_.mailbox[source]
        target_piece == board_.mailbox[target]
        is_capture == target_piece # CPNone
        idx == board_.plys_count
        old == HistoryAt(board_, idx)
        entry == IF old.hash # board_.hash
                 THEN [played_move |-> chessmove, captured_piece |-> target_piece,
                       castling_r |-> board_.rights, enp_target |-> board_.enp_target,
                       draw_clock |-> board_.draw_clock, hash |-> board_.hash]
                 ELSE [old EXCEPT !.played_move = chessmove,
                                  !.captured_piece = target_piece]
        b0 == IF idx >= HistoryN THEN Panic(board_)
              ELSE [board_ EXCEPT !.history = HistorySet(@, idx, entry)]
        b1 == remove_piece(b0, source)
        b2 == [b1 EXCEPT
                  !.draw_clock =
                      IF is_capture \/ PieceOf(source_piece) = Pawn THEN 0
                      ELSE (@ + 1) % (2 ^ 8),
                  !.overflowed =
                      /\ ~(is_capture \/ PieceOf(source_piece) = Pawn)
                      /\ b1.draw_clock + 1 > 2 ^ 8 - 1]
        b3 == IF b2.enp_target # SquareNone
              THEN [b2 EXCEPT !.hash = Xor(@, en_passant_key(b2.enp_target)),
                              !.enp_target = SquareNone]
              ELSE b2
        b4 == [b3 EXCEPT !.rights = (@ \ get_updates(source)) \ get_updates(target)]
        b5 == IF is_capture THEN remove_piece(b4, target) ELSE b4
        b6 == CASE flag = Promotion ->
                     insert_piece(b5, target, ColoredPieceNew(MovePromot(chessmove), us))
                [] flag = Castle ->
                     LET tg == get_targets(SideColorFromSqs(source, target))
                     IN  insert_piece(insert_piece(b5, tg[1], source_piece),
                                      tg[2], target_piece)
                [] flag = EnPassant ->
                     insert_piece(remove_piece(b5, SquareDown(target, us)),
                                  target, source_piece)
                [] OTHER ->
                     LET b5a == insert_piece(b5, target, source_piece)
                         ep_target == SquareDown(target, us)
                     IN  IF /\ PieceOf(source_piece) = Pawn
                            /\ Distance(target, source) = 2
                         THEN [b5a EXCEPT !.enp_target = ep_target,
                                          !.hash = Xor(@, en_passant_key(ep_target))]
                         ELSE b5a
        b7 == [b6 EXCEPT !.plys_count = (@ + 1) % (2 ^ 16),
                         !.overflowed = @ \/ b6.plys_count + 1 > 2 ^ 16 - 1,
                         !.side_to_mv = Not(us),
                         !.hash = Xor(@, side_to_move_key)]
        b8 == generate_check_masks(RefreshSides(b7))
    IN  IF b8.panicked THEN Panic(board_) ELSE b8

make_move(board_, chessmove) ==
    LET source == MoveSource(chessmove)
        target == MoveTarget(chessmove)
        flag == MoveFlags(chessmove)
        us == board_.side_to_mv
        source_piece == board_.mailbox[source]
        target_piece == board_.mailbox[target]
        is_capture == target_piece # CPNone
        idx == board_.plys_count
        old == HistoryAt(board_, idx)
        entry == IF old.hash # board_.hash
                 THEN [played_move |-> chessmove, captured_piece |-> target_piece,
                       castling_r |-> board_.rights, enp_target |-> board_.enp_target,
                       draw_clock |-> board_.draw_clock, hash |-> board_.hash]
                 ELSE [old EXCEPT !.played_move = chessmove,
                                  !.captured_piece = target_piece]
        b0 == IF idx >= HistoryN THEN Panic(board_)
              ELSE [board_ EXCEPT !.history = HistorySet(@, idx, entry)]
        b1 == remove_piece(b0, source)
        b2 == [b1 EXCEPT
                  !.draw_clock =
                      IF is_capture \/ PieceOf(source_piece) = Pawn THEN 0
                      ELSE (@ + 1) % (2 ^ 8),
                  !.overflowed =
                      /\ ~(is_capture \/ PieceOf(source_piece) = Pawn)
                      /\ b1.draw_clock + 1 > 2 ^ 8 - 1]
        b3 == IF b2.enp_target # SquareNone
              THEN [b2 EXCEPT !.hash = Xor(@, en_passant_key(b2.enp_target)),
                              !.enp_target = SquareNone]
              ELSE b2
        b4 == [b3 EXCEPT !.rights = (@ \ get_updates(source)) \ get_updates(target)]
        b5 == IF is_capture THEN remove_piece(b4, target) ELSE b4
        b6 == CASE flag = Promotion ->
                     insert_piece(b5, target, ColoredPieceNew(MovePromot(chessmove), us))
                [] flag = Castle ->
                     LET tg == get_targets(SideColorFromSqs(source, target))
                     IN  insert_piece(insert_piece(b5, tg[1], source_piece),
                                      tg[2], target_piece)
                [] flag = EnPassant ->
                     insert_piece(remove_piece(b5, SquareDown(target, us)),
                                  target, source_piece)
                [] OTHER ->
                     LET b5a == insert_piece(b5, target, source_piece)
                         ep_target == SquareDown(target, us)
                     IN  IF /\ PieceOf(source_piece) = Pawn
                            /\ Distance(target, source) = 2
                            /\ pawn_attacks(ep_target, us)
                                   \cap piece_color_bb(b5a, Pawn, Not(us)) # {}
                         THEN [b5a EXCEPT !.enp_target = ep_target,
                                          !.hash = Xor(@, en_passant_key(ep_target))]
                         ELSE b5a
        b7 == [b6 EXCEPT !.plys_count = (@ + 1) % (2 ^ 16),
                         !.overflowed = @ \/ b6.plys_count + 1 > 2 ^ 16 - 1,
                         !.side_to_mv = Not(us),
                         !.hash = Xor(@, side_to_move_key)]
        b8 == generate_check_masks(RefreshSides(b7))
    IN  IF b8.panicked THEN Panic(board_) ELSE b8

undo_move(board_) ==
    LET previous_state == HistoryAt(board_, board_.plys_count - 1)
        chessmove == previous_state.played_move
        source == MoveSource(chessmove)
        target == MoveTarget(chessmove)
        flag == MoveFlags(chessmove)
        target_piece == board_.mailbox[target]
        us == Not(board_.side_to_mv)
        b0 == [board_ EXCEPT !.plys_count = @ - 1, !.side_to_mv = us,
                             !.overflowed = FALSE]
        tg == get_targets(SideColorFromSqs(source, target))
        source_piece ==
            CASE flag = Castle -> board_.mailbox[tg[1]]
              [] flag = Promotion -> ColoredPieceNew(Pawn, ColorOf(target_piece))
              [] OTHER -> target_piece
        b1 == CASE flag = Castle -> remove_piece(remove_piece(b0, tg[1]), tg[2])
                [] flag = EnPassant ->
                     insert_piece(remove_piece(b0, target), SquareDown(target, us),
                                  ColoredPieceNew(Pawn, Not(us)))
                [] OTHER -> remove_piece(b0, target)
        b2 == IF previous_state.captured_piece # CPNone
              THEN insert_piece(b1, target, previous_state.captured_piece)
              ELSE b1
        b3 == insert_piece(b2, source, source_piece)
        b4 == [b3 EXCEPT !.enp_target = previous_state.enp_target,
                         !.rights = previous_state.castling_r,
                         !.draw_clock = previous_state.draw_clock,
                         !.hash = previous_state.hash]
        b5 == generate_check_masks(RefreshSides(b4))
    IN  IF board_.plys_count = 0 \/ board_.plys_count - 1 >= HistoryN THEN Panic(board_)
        ELSE IF b5.panicked THEN Panic(board_) ELSE b5

(***************************************************************************)
(* Move generation: board.rs 571-892.  The fields threats, pin_mask_l,     *)
(* pin_mask_d, targets and move_list of struct Board are scratch space     *)
(* that generate_moves recomputes from the position before reading them;   *)
(* they are the fields of the record `g` here and the returned move list   *)
(* is a sequence in the order the code pushes.                             *)
(***************************************************************************)
RECURSIVE ConcatAll(_)
ConcatAll(ss) == IF ss = <<>> THEN <<>> ELSE Head(ss) \o ConcatAll(Tail(ss))

SeqRange(s) == {s[i] : i \in DOMAIN s}

generate_pin_masks(b) ==
    LET kingsq == Lsb(b.piece_bbs[King] \cap b.friends)
        bi == b.piece_bbs[Bishop] \cap b.enemies
        r == b.piece_bbs[Rook] \cap b.enemies
        q == b.piece_bbs[Queen] \cap b.enemies
        pinning_l == (r \cup q) \cap rook(kingsq, b.enemies)
        pinning_d == (bi \cup q) \cap bishop(kingsq, b.enemies)
        Pins(pinning) ==
            UNION {Between(kingsq, x) \cup {x} :
                   x \in {y \in pinning :
                          Cardinality(b.friends \cap Between(kingsq, y)) = 1}}
    IN  [l |-> Pins(pinning_l), d |-> Pins(pinning_d)]

\* Mutant of generate_threats: the king stays in the blocker mask.
generate_threats_kingblocks(b) ==
    LET xtm == Not(b.side_to_mv)
    IN  UNION {pawn_attacks(s, xtm) : s \in piece_color_bb(b, Pawn, xtm)}
        \cup UNION {knight(s) : s \in piece_color_bb(b, Knight, xtm)}
        \cup UNION {bishop(s, b.occupied) : s \in piece_color_bb(b, Bishop, xtm)}
        \cup UNION {rook(s, b.occupied) : s \in piece_color_bb(b, Rook, xtm)}
        \cup UNION {queen(s, b.occupied) : s \in piece_color_bb(b, Queen, xtm)}
        \cup king(Lsb(piece_color_bb(b, King, xtm)))

generate_threats(b) ==
    LET xtm == Not(b.side_to_mv)
        blockers == (b.occupied \ (b.piece_bbs[King] \cap b.friends))
                    \cup ((b.piece_bbs[King] \cap b.friends) \ b.occupied)
    IN  UNION {pawn_attacks(s, xtm) : s \in piece_color_bb(b, Pawn, xtm)}
        \cup UNION {knight(s) : s \in piece_color_bb(b, Knight, xtm)}
        \cup UNION {bishop(s, blockers) : s \in piece_color_bb(b, Bishop, xtm)}
        \cup UNION {rook(s, blockers) : s \in piece_color_bb(b, Rook, xtm)}
        \cup UNION {queen(s, blockers) : s \in piece_color_bb(b, Queen, xtm)}
        \cup king(Lsb(piece_color_bb(b, King, xtm)))

GenMasks(b, GEN_QUIET, GEN_NOISY) ==
    LET pins == generate_pin_masks(b)
    IN  [threats |-> generate_threats(b),
         pin_mask_l |-> pins.l,
         pin_mask_d |-> pins.d,
         targets |-> (IF GEN_QUIET THEN UNIVERSE \ b.occupied ELSE EMPTY)
                     \cup (IF GEN_NOISY THEN b.enemies ELSE EMPTY)]

serialize_moves(b, g, source, targets) ==
    LET ts == BBSeq((targets \cap g.targets) \cap b.check_mask)
    IN  [i \in DOMAIN ts |-> MoveNew(source, ts[i], Normal)]

\* Mutant of serialize_king_moves: the target filter is not applied.
serialize_king_moves_nofilter(b, g, source, targets) ==
    LET ts == BBSeq(targets \ (g.threats \cup b.friends))
    IN  [i \in DOMAIN ts |-> MoveNew(source, ts[i], Normal)]

serialize_king_moves(b, g, source, targets) ==
    LET ts == BBSeq((targets \cap g.targets) \ g.threats)
    IN  [i \in DOMAIN ts |-> MoveNew(source, ts[i], Normal)]

serialize_pawn_push(b, g, GEN_QUIET, GEN_NOISY, targets) ==
    LET us == b.side_to_mv
        pushes0 == (targets \cap b.check_mask) \ b.occupied
        promos == pushes0 \cap BBRank(RankRelative(RankEighth, us))
        pushes == pushes0 \ promos
        PromoMoves(pawn) ==
            (IF GEN_NOISY
             THEN <<MoveNewWithPromotion(SquareDown(pawn, us), pawn, Queen)>>
             ELSE <<>>)
            \o (IF GEN_QUIET
                THEN <<MoveNewWithPromotion(SquareDown(pawn, us), pawn, Knight),
                       MoveNewWithPromotion(SquareDown(pawn, us), pawn, Rook),
                       MoveNewWithPromotion(SquareDown(pawn, us), pawn, Bishop)>>
                ELSE <<>>)
        ps == BBSeq(promos)
        qs == BBSeq(pushes)
        double0 == targets \cap BBRank(RankRelative(RankThird, us))
        double == (BBUp(double0, us) \cap b.check_mask) \ b.occupied
        ds == BBSeq(double)
    IN  ConcatAll([i \in DOMAIN ps |-> PromoMoves(ps[i])])
        \o (IF GEN_QUIET
            THEN [i \in DOMAIN qs |-> MoveNew(SquareDown(qs[i], us), qs[i], Normal)]
                 \o [i \in DOMAIN ds |->
                        MoveNew(SquareDown(SquareDown(ds[i], us), us), ds[i], Normal)]
            ELSE <<>>)

generate_pawn_moves(b, g, GEN_QUIET, GEN_NOISY) ==
    LET pawns == piece_color_bb(b, Pawn, b.side_to_mv) \ g.pin_mask_d
        pinned == pawns \cap g.pin_mask_l
        unpinned == pawns \ pinned
        pinned_pushed == BBUp(pinned, b.side_to_mv) \cap g.pin_mask_l
        unpinned_pushed == BBUp(unpinned, b.side_to_mv)
    IN  serialize_pawn_push(b, g, GEN_QUIET, GEN_NOISY, pinned_pushed \cup unpinned_pushed)

\* Mutant of generate_knight_moves: the king's attack table is looked up.
generate_knight_moves_kingtable(b, g) ==
    LET ks == BBSeq(piece_color_bb(b, Knight, b.side_to_mv)
                    \ (g.pin_mask_l \cup g.pin_mask_d))
    IN  ConcatAll([i \in DOMAIN ks |-> serialize_moves(b, g, ks[i], king(ks[i]))])

\* Mutant of generate_knight_moves: pinned knights are not removed.
generate_knight_moves_nopin(b, g) ==
    LET ks == BBSeq(piece_color_bb(b, Knight, b.side_to_mv))
    IN  ConcatAll([i \in DOMAIN ks |-> serialize_moves(b, g, ks[i], knight(ks[i]))])

generate_knight_moves(b, g) ==
    LET ks == BBSeq(piece_color_bb(b, Knight, b.side_to_mv)
                    \ (g.pin_mask_l \cup g.pin_mask_d))
    IN  ConcatAll([i \in DOMAIN ks |-> serialize_moves(b, g, ks[i], knight(ks[i]))])

generate_bishop_moves(b, g) ==
    LET bishops == (piece_color_bb(b, Bishop, b.side_to_mv)
                    \cup piece_color_bb(b, Queen, b.side_to_mv)) \ g.pin_mask_l
        pinned == BBSeq(bishops \cap g.pin_mask_d)
        unpinned == BBSeq(bishops \ g.pin_mask_d)
    IN  ConcatAll([i \in DOMAIN pinned |->
            serialize_moves(b, g, pinned[i],
                            bishop(pinned[i], b.occupied) \cap g.pin_mask_d)])
        \o ConcatAll([i \in DOMAIN unpinned |->
            serialize_moves(b, g, unpinned[i], bishop(unpinned[i], b.occupied))])

\* Mutant of generate_rook_moves: the moves of a pinned rook or queen are
\* not cut down to the pin mask.
generate_rook_moves_nomask(b, g) ==
    LET rooks == BBSeq((piece_color_bb(b, Rook, b.side_to_mv)
                        \cup piece_color_bb(b, Queen, b.side_to_mv))
                       \ g.pin_mask_d)
    IN  ConcatAll([i \in DOMAIN rooks |->
            serialize_moves(b, g, rooks[i], rook(rooks[i], b.occupied))])

generate_rook_moves(b, g) ==
    LET rooks == (piece_color_bb(b, Rook, b.side_to_mv)
                  \cup piece_color_bb(b, Queen, b.side_to_mv)) \ g.pin_mask_d
        pinned == BBSeq(rooks \cap g.pin_mask_l)
        unpinned == BBSeq(rooks \ g.pin_mask_l)
    IN  ConcatAll([i \in DOMAIN pinned |->
            serialize_moves(b, g, pinned[i],
                            rook(pinned[i], b.occupied) \cap g.pin_mask_l)])
        \o ConcatAll([i \in DOMAIN unpinned |->
            serialize_moves(b, g, unpinned[i], rook(unpinned[i], b.occupied))])

generate_king_moves(b, g) ==
    LET kingsq == Lsb(piece_color_bb(b, King, b.side_to_mv))
    IN  serialize_king_moves(b, g, kingsq, king(kingsq))

generate_castling_moves(b, g) ==
    LET castling_blockers == b.occupied \cup g.threats
        kingsq == Lsb(piece_color_bb(b, King, b.side_to_mv))
        a_side == SideColor(b.side_to_mv, SideA)
        h_side == SideColor(b.side_to_mv, SideH)
    IN  (IF a_side \in b.rights /\ InfoPath(a_side) \cap castling_blockers = {}
         THEN <<MoveNew(kingsq, InfoRook(a_side), Castle)>> ELSE <<>>)
        \o (IF h_side \in b.rights /\ InfoPath(h_side) \cap castling_blockers = {}
            THEN <<MoveNew(kingsq, InfoRook(h_side), Castle)>> ELSE <<>>)

generate_moves(b, GEN_QUIET, GEN_NOISY) ==
    LET g == GenMasks(b, GEN_QUIET, GEN_NOISY)
    IN  generate_king_moves(b, g)
        \o (IF b.check_nm < 2
            THEN generate_pawn_moves(b, g, GEN_QUIET, GEN_NOISY)
                 \o generate_knight_moves(b, g)
                 \o generate_bishop_moves(b, g)
                 \o generate_rook_moves(b, g)
                 \o (IF GEN_QUIET THEN generate_castling_moves(b, g) ELSE <<>>)
            ELSE <<>>)

generate_legal_moves(b) == generate_moves(b, TRUE, TRUE)

generate_quiet_moves(b) == generate_moves(b, TRUE, FALSE)

generate_noisy_moves(b) == generate_moves(b, FALSE, TRUE)

is_check(b) == b.checkers # EMPTY

is_mated(b) == is_check(b) /\ generate_legal_moves(b) = <<>>

(***************************************************************************)
(* Piece placement parsing: mailbox.rs 31-91.  A string is a sequence of   *)
(* one-character strings.  The parse state is the mailbox, the rank and    *)
(* file pointers and the error ("" while none).                            *)
(***************************************************************************)
PieceChars == <<"P", "N", "B", "R", "Q", "K", "p", "n", "b", "r", "q", "k">>

DigitChars == <<"1", "2", "3", "4", "5", "6", "7", "8">>

IndexIn(seq, ch) == CHOOSE i \in DOMAIN seq : seq[i] = ch

\* File::from / Rank::from of an integer: the ninth value is None.
EnumFrom(n) == IF n >= 8 THEN 8 ELSE n

MailboxRankStart(st) ==
    IF st.err = "" /\ st.rank = RankNone THEN [st EXCEPT !.err = "TooManyFields"] ELSE st

MailboxRankEnd(st) ==
    IF st.err # "" THEN st
    ELSE IF st.file # FileNone THEN [st EXCEPT !.err = "FileDataIncomplete"]
    ELSE [st EXCEPT !.rank = EnumFrom(st.rank + 1), !.file = FileA]

MailboxChar(st, data) ==
    LET square == SquareNew(st.file, st.rank)
    IN  IF st.err # "" THEN st
        ELSE IF data \in SeqRange(PieceChars)
        THEN IF square \notin Squares THEN [st EXCEPT !.err = "panic"]
             ELSE [st EXCEPT !.mailbox[square] = IndexIn(PieceChars, data) - 1,
                             !.file = EnumFrom(st.file + 1)]
        ELSE IF data \in SeqRange(DigitChars)
        THEN LET file == EnumFrom(st.file + IndexIn(DigitChars, data) - 1)
             IN  IF file = FileNone THEN [st EXCEPT !.err = "JumpTooLong"]
                 ELSE [st EXCEPT !.file = EnumFrom(file + 1)]
        ELSE [st EXCEPT !.err = "InvalidPieceIdent"]

RECURSIVE MailboxParse(_, _, _)
MailboxParse(st, s, i) ==
    IF st.err # "" THEN st
    ELSE IF i > Len(s) THEN MailboxRankEnd(st)
    ELSE IF s[i] = "/" THEN MailboxParse(MailboxRankStart(MailboxRankEnd(st)), s, i + 1)
    ELSE MailboxParse(MailboxChar(st, s[i]), s, i + 1)

MailboxFromStr(s) ==
    MailboxParse(MailboxRankStart([mailbox |-> [sq \in Squares |-> CPNone],
                                   rank |-> RankEighth, file |-> FileA, err |-> ""]),
                 s, 1)

\* FEN::from_str (fen.rs 76-130) of a string whose fields parse: the
\* castling field is not read, the value holds all four rights.
FENOf(placement, side, enp, half, full) ==
    [position |-> MailboxFromStr(placement).mailbox,
     side_to_move |-> side,
     castling_rights |-> RightsAll,
     en_pass_square |-> enp,
     half_move_clock |-> half,
     full_move_count |-> full]

\* main.rs 7: rnbqkbnr/pppppppp/8/8/8/8/PPPPPPPP/RNBQKBNR w KQkq - 0 1
StartPlacement ==
    <<"r", "n", "b", "q", "k", "b", "n", "r", "/", "p", "p", "p", "p", "p",
      "p", "p", "p", "/", "8", "/", "8", "/", "8", "/", "8", "/", "P", "P",
      "P", "P", "P", "P", "P", "P", "/", "R", "N", "B", "Q", "K", "B", "N",
      "R">>

StartFEN == FENOf(StartPlacement, White, SquareNone, 0, 1)

\* Small positions the caller starts from (all fields parse; one king each).
\* 6bk/P4ppp/5PPP/5PPP/5ppp/5ppp/p4PPP/6BK w - - 0 1: both sides can only
\* promote their a-pawn; the pawns g6 and f6, h6 attack black pawns.
PromoPlacement ==
    <<"6", "b", "k", "/", "P", "4", "p", "p", "p", "/", "5", "P", "P", "P",
      "/", "5", "P", "P", "P", "/", "5", "p", "p", "p", "/", "5", "p", "p",
      "p", "/", "p", "4", "P", "P", "P", "/", "6", "B", "K">>

\* 6bk/5ppp/5PPP/4pPPP/3p1p2/3prp2/3PPP2/4K3 w - - 0 1: the pawn e2 is
\* pinned to the king e1 by the rook e3, e4 is empty.
PinPlacement ==
    <<"6", "b", "k", "/", "5", "p", "p", "p", "/", "5", "P", "P", "P", "/",
      "4", "p", "P", "P", "P", "/", "3", "p", "1", "p", "2", "/", "3", "p",
      "r", "p", "2", "/", "3", "P", "P", "P", "2", "/", "4", "K", "3">>

\* 7k/6pp/6PP/6PP/3ppp1p/3ppp1p/3PPP1P/4K2R w - - 0 1: White can castle
\* with the rook h1.
CastlePlacement ==
    <<"7", "k", "/", "6", "p", "p", "/", "6", "P", "P", "/", "6", "P", "P",
      "/", "3", "p", "p", "p", "1", "p", "/", "3", "p", "p", "p", "1", "p",
      "/", "3", "P", "P", "P", "1", "P", "/", "4", "K", "2", "R">>

SmallFENs ==
    {FENOf(PromoPlacement, White, SquareNone, 0, 1),
     FENOf(PinPlacement, White, SquareNone, 0, 1),
     FENOf(CastlePlacement, White, SquareNone, 0, 1)}

(***************************************************************************)
(* The caller of make_move / undo_move: any sequence of make_move of a     *)
(* generated move and of undo_move of a move it made (undo_move's          *)
(* precondition: at least one ply has been played).  `made` counts the     *)
(* moves made and not undone, `last_op` is the last operation on `board`.  *)
(***************************************************************************)
PerftIdle == [pc |-> "idle", bulk |-> FALSE, depth |-> 0, stack |-> <<>>, ret |-> 0]

\* No string is being parsed: the caller built its FEN value already.
ParseIdle == [s |-> <<>>, out |-> [res |-> "idle"], emitted |-> <<>>]

InitFENs == SmallFENs

Init ==
    /\ \E fen \in InitFENs : board = BoardFromFEN(fen)
    /\ made = 0
    /\ last_op = "new"
    /\ pf = PerftIdle
    /\ parsed = ParseIdle
    /\ call = <<>>

MakeMove ==
    /\ ~board.panicked
    /\ made < MaxMade
    /\ \E m \in SeqRange(generate_legal_moves(board)) :
           LET b == make_move(board, m)
           IN  board' \in {b} \cup (IF b.overflowed THEN {Panic(board)} ELSE {})
    /\ made' = made + 1
    /\ last_op' = "make"
    /\ UNCHANGED <<pf, parsed, call>>

UndoMove ==
    /\ ~board.panicked
    /\ made > 0
    /\ board' = undo_move(board)
    /\ made' = made - 1
    /\ last_op' = "undo"
    /\ UNCHANGED <<pf, parsed, call>>

Next == MakeMove \/ UndoMove

Spec == Init /\ [][Next]_vars

(***************************************************************************)
(* A second caller starts from positions with an en-passant target, with   *)
(* checks and with pins, and plays like the first (actions MakeMove and    *)
(* UndoMove).  Blocked pawns keep the positions small.                     *)
(***************************************************************************)
\* 6bk/5ppp/5PPP/3pPPPP/2p2ppp/5ppp/PP3PPP/6BK w - d6 0 1: Black has just
\* played d7d5, the pawn e5 attacks d6; b2b4 passes the pawn c4, a2a4
\* passes no pawn.
EnPassantPlacement ==
    <<"6", "b", "k", "/", "5", "p", "p", "p", "/", "5", "P", "P", "P", "/",
      "3", "p", "P", "P", "P", "P", "/", "2", "p", "2", "p", "p", "p", "/",
      "5", "p", "p", "p", "/", "P", "P", "3", "P", "P", "P", "/", "6", "B",
      "K">>

\* 6bk/5ppp/5PPP/5PPP/p3p1p1/p3p1p1/P3PpP1/R3KB2 w - - 0 1: the pawn f2
\* checks the king e1; b1, c1 and d1 are empty and not attacked.
CheckedPlacement ==
    <<"6", "b", "k", "/", "5", "p", "p", "p", "/", "5", "P", "P", "P", "/",
      "5", "P", "P", "P", "/", "p", "3", "p", "1", "p", "1", "/", "p", "3",
      "p", "1", "p", "1", "/", "P", "3", "P", "p", "P", "1", "/", "R", "3",
      "K", "B", "2">>

\* 6bk/5ppp/5PPP/5PPP/4p3/3prp2/4N3/4K3 w - - 0 1: the rook e3 pins the
\* knight e2.
KnightPinPlacement ==
    <<"6", "b", "k", "/", "5", "p", "p", "p", "/", "5", "P", "P", "P", "/",
      "5", "P", "P", "P", "/", "4", "p", "3", "/", "3", "p", "r", "p", "2",
      "/", "4", "N", "3", "/", "4", "K", "3">>

\* 6bk/5ppp/5PPP/p4PPP/rp6/p7/N7/K7 w - - 0 1: the knight a2 and the black
\* pawn a3 both stand between the king a1 and the rook a4.
KnightShieldPlacement ==
    <<"6", "b", "k", "/", "5", "p", "p", "p", "/", "5", "P", "P", "P", "/",
      "p", "4", "P", "P", "P", "/", "r", "p", "6", "/", "p", "7", "/", "N",
      "7", "/", "K", "7">>

\* 4k3/8/2p3p1/2P3P1/2ppNppp/2Pp1ppp/3PRPPP/6BK w - - 0 1: Nd6 and Nf6
\* check the king e8 and open the e-file of the rook e2.
DoubleCheckPlacement ==
    <<"4", "k", "3", "/", "8", "/", "2", "p", "3", "p", "1", "/", "2", "P",
      "3", "P", "1", "/", "2", "p", "p", "N", "p", "p", "p", "/", "2", "P",
      "p", "1", "p", "p", "p", "/", "3", "P", "R", "P", "P", "P", "/", "6",
      "B", "K">>

\* D6
EnPassantSquare == 19

CheckFENs ==
    {FENOf(EnPassantPlacement, White, EnPassantSquare, 0, 1),
     FENOf(CheckedPlacement, White, SquareNone, 0, 1),
     FENOf(KnightPinPlacement, White, SquareNone, 0, 1),
     FENOf(KnightShieldPlacement, White, SquareNone, 0, 1),
     FENOf(DoubleCheckPlacement, White, SquareNone, 0, 1)}

InitChecks ==
    /\ \E fen \in CheckFENs : board = BoardFromFEN(fen)
    /\ made = 0
    /\ last_op = "new"
    /\ pf = PerftIdle
    /\ parsed = ParseIdle
    /\ call = <<>>

SpecChecks == InitChecks /\ [][Next]_vars

(***************************************************************************)
(* perft: main.rs 26-62, called on the start position of main.rs 7.  Each  *)
(* frame of `stack` is one activation: its depth, its position in the      *)
(* function, the moves not yet tried and the nodes counted so far; `ret`   *)
(* is the value the last activation returned.                              *)
(***************************************************************************)
\* The deepest perft the model runs.
MaxDepth == 3

PerftDepths == 0 .. MaxDepth

PerftTop == pf.stack[Len(pf.stack)]

PerftFrame(depth) == [depth |-> depth, pc |-> "enter", moves |-> <<>>, nodes |-> 0]

PerftRet(value) ==
    [pf EXCEPT !.stack = SubSeq(@, 1, Len(@) - 1),
               !.ret = value,
               !.pc = IF Len(pf.stack) = 1 THEN "done" ELSE "run"]

PerftInit ==
    /\ board = BoardFromFEN(StartFEN)
    /\ made = 0
    /\ last_op = "new"
    /\ \E d \in PerftDepths, bulk \in BOOLEAN :
           pf = [pc |-> "run", bulk |-> bulk, depth |-> d,
                 stack |-> <<PerftFrame(d)>>, ret |-> 0]
    /\ parsed = ParseIdle
    /\ call = <<>>

PerftRunning == pf.pc = "run" /\ ~board.panicked

\* if depth <= 0 { return 1; }
PerftLeaf ==
    /\ PerftRunning /\ PerftTop.pc = "enter" /\ PerftTop.depth <= 0
    /\ pf' = PerftRet(1)
    /\ UNCHANGED <<board, made, last_op, parsed, call>>

\* if BULK_COUNT && depth == 1 { return board.generate_legal_moves().len(); }
PerftBulk ==
    /\ PerftRunning /\ PerftTop.pc = "enter" /\ PerftTop.depth > 0
    /\ pf.bulk /\ PerftTop.depth = 1
    /\ pf' = PerftRet(Len(generate_legal_moves(board)))
    /\ UNCHANGED <<board, made, last_op, parsed, call>>

\* let moves = board.generate_legal_moves(); let mut nodes = 0;
PerftGenerate ==
    /\ PerftRunning /\ PerftTop.pc = "enter" /\ PerftTop.depth > 0
    /\ ~(pf.bulk /\ PerftTop.depth = 1)
    /\ pf' = [pf EXCEPT !.stack[Len(pf.stack)] =
                 [@ EXCEPT !.pc = "loop", !.moves = generate_legal_moves(board)]]
    /\ UNCHANGED <<board, made, last_op, parsed, call>>

\* board.make_move(chessmove); perft(board, depth - 1)
PerftMake ==
    /\ PerftRunning /\ PerftTop.pc = "loop" /\ PerftTop.moves # <<>>
    /\ board' = make_move(board, Head(PerftTop.moves))
    /\ pf' = [pf EXCEPT !.stack =
                 Append([@ EXCEPT ![Len(pf.stack)].pc = "wait"],
                        PerftFrame(PerftTop.depth - 1))]
    /\ made' = made + 1
    /\ last_op' = "make"
    /\ UNCHANGED <<parsed, call>>

\* board.undo_move(); nodes += new_nodes;
PerftUndo ==
    /\ PerftRunning /\ PerftTop.pc = "wait"
    /\ board' = undo_move(board)
    /\ pf' = [pf EXCEPT !.stack[Len(pf.stack)] =
                 [@ EXCEPT !.pc = "loop", !.moves = Tail(@), !.nodes = @ + pf.ret]]
    /\ made' = made - 1
    /\ last_op' = "undo"
    /\ UNCHANGED <<parsed, call>>

\* nodes
PerftReturn ==
    /\ PerftRunning /\ PerftTop.pc = "loop" /\ PerftTop.moves = <<>>
    /\ pf' = PerftRet(PerftTop.nodes)
    /\ UNCHANGED <<board, made, last_op, parsed, call>>

PerftNext ==
    PerftLeaf \/ PerftBulk \/ PerftGenerate \/ PerftMake \/ PerftUndo \/ PerftReturn

SpecPerft == PerftInit /\ [][PerftNext]_vars

(***************************************************************************)
(* main: main.rs 5-14 builds the start position and plays hand-built moves *)
(* with make_move.  The caller of the model plays, ply by ply, the move of *)
(* main.rs 9-12 or one of a few other moves, when the generator lists it.  *)
(***************************************************************************)
\* f2f3, e7e5, g2g4, d8h4
MainLine ==
    <<MoveNew(53, 45, Normal), MoveNew(12, 28, Normal),
      MoveNew(54, 38, Normal), MoveNew(3, 39, Normal)>>

\* f2f4 e2e4 b1c3 | e7e6 d7d5 | g1f3 d2d3 | d8f6 g8f6 b8c6
MainOthers ==
    <<{MoveNew(53, 37, Normal), MoveNew(52, 36, Normal), MoveNew(57, 42, Normal)},
      {MoveNew(12, 20, Normal), MoveNew(11, 27, Normal)},
      {MoveNew(62, 45, Normal), MoveNew(51, 43, Normal)},
      {MoveNew(3, 21, Normal), MoveNew(6, 21, Normal), MoveNew(1, 18, Normal)}>>

MainInit ==
    /\ board = BoardFromFEN(StartFEN)
    /\ made = 0
    /\ last_op = "new"
    /\ pf = PerftIdle
    /\ parsed = ParseIdle
    /\ call = <<>>

MainMake ==
    /\ ~board.panicked
    /\ made < Len(MainLine)
    /\ \E m \in ({MainLine[made + 1]} \cup MainOthers[made + 1])
                \cap SeqRange(generate_legal_moves(board)) :
           board' = make_move(board, m)
    /\ made' = made + 1
    /\ last_op' = "make"
    /\ UNCHANGED <<pf, parsed, call>>

SpecMain == MainInit /\ [][MainMake]_vars

(***************************************************************************)
(* A caller that searches: it plays, ply by ply, one of a few moves when   *)
(* the generator lists it and takes moves back with undo_move.  From the   *)
(* start position g2g4 and b1c3 can be played in either order; in the      *)
(* castling position the rook (h1g1, g1h1) or the king (e1f1, f1e1) goes   *)
(* out and back: the same position is reached along two lines of play and  *)
(* a history slot is written twice.  One position starts with the          *)
(* halfmove clock 255, the largest the parser accepts, one with Black to   *)
(* move in move 7 and one in move 600.  In the last position seven pieces  *)
(* of White are pinned at once and Black can check with a rook, a bishop   *)
(* or a queen on the line it takes.                                        *)
(***************************************************************************)
\* k2r3b/8/3R1B2/8/q1QK1B1r/8/1R1P1Q2/q2r2b1 w - - 0 1: the king d4 stands
\* behind Rd6 (rook d8), Qc4 (queen a4), Bf4 (rook h4), Pd2 (rook d1),
\* Bf6 (bishop h8), Rb2 (queen a1) and Qf2 (bishop g1).
PinnedPlacement ==
    <<"k", "2", "r", "3", "b", "/", "8", "/", "3", "R", "1", "B", "2", "/",
      "8", "/", "q", "1", "Q", "K", "1", "B", "1", "r", "/", "8", "/", "1",
      "R", "1", "P", "1", "Q", "2", "/", "q", "2", "r", "2", "b", "1">>

LinesInit ==
    /\ \E fen \in {StartFEN, FENOf(CastlePlacement, White, SquareNone, 0, 1),
                    FENOf(CastlePlacement, White, SquareNone, 255, 1),
                    FENOf(CastlePlacement, Black, SquareNone, 0, 7),
                    FENOf(CastlePlacement, White, SquareNone, 0, 600),
                    FENOf(PinnedPlacement, White, SquareNone, 0, 1)} :
           board = BoardFromFEN(fen)
    /\ made = 0
    /\ last_op = "new"
    /\ pf = PerftIdle
    /\ parsed = ParseIdle
    /\ call = <<>>

LineMake ==
    LET \* g2g4 b1c3 h1g1 e1f1 | e7e5 g8f6 h8g8 | g2g4 b1c3 g1h1 f1e1 |
        \* d8h4 f8c5 g8h8 g8f8; with Black first h8g8 | h1g1 e1f1 | g8h8 |
        \* g1h1 f1e1; pinned pieces and checks: d6d7 f6e5 c4b4 |
        \* d8d7 h8e5 a4b4 | d4e4 d4d3 | d7d6
        LineMoves ==
            <<{MoveNew(54, 38, Normal), MoveNew(57, 42, Normal),
               MoveNew(63, 62, Normal), MoveNew(60, 61, Normal),
               MoveNew(7, 6, Normal),
               MoveNew(19, 11, Normal), MoveNew(21, 28, Normal),
               MoveNew(34, 33, Normal)},
              {MoveNew(12, 28, Normal), MoveNew(6, 21, Normal),
               MoveNew(7, 6, Normal),
               MoveNew(63, 62, Normal), MoveNew(60, 61, Normal),
               MoveNew(3, 11, Normal), MoveNew(7, 28, Normal),
               MoveNew(32, 33, Normal)},
              {MoveNew(54, 38, Normal), MoveNew(57, 42, Normal),
               MoveNew(62, 63, Normal), MoveNew(61, 60, Normal),
               MoveNew(6, 7, Normal),
               MoveNew(35, 36, Normal), MoveNew(35, 43, Normal)},
              {MoveNew(3, 39, Normal), MoveNew(5, 26, Normal),
               MoveNew(6, 7, Normal), MoveNew(6, 5, Normal),
               MoveNew(62, 63, Normal), MoveNew(61, 60, Normal),
               MoveNew(11, 19, Normal)}>>
    IN  /\ ~board.panicked
        /\ made < Len(LineMoves)
        /\ \E m \in LineMoves[made + 1] \cap SeqRange(generate_legal_moves(board)) :
               LET b == make_move(board, m)
               IN  board' \in {b} \cup (IF b.overflowed THEN {Panic(board)} ELSE {})
        /\ made' = made + 1
        /\ last_op' = "make"
        /\ UNCHANGED <<pf, parsed, call>>

SpecLines == LinesInit /\ [][LineMake \/ UndoMove]_vars

(***************************************************************************)
(* Board::from_str (board.rs 152-161): FEN::from_str (fen.rs 76-130) of    *)
(* the string, then Board::from of the FEN value.  `parsed` holds the      *)
(* string `s` and the outcome `out` of the call: "call" while it has not   *)
(* returned, then "Ok" with the FEN value, "Err" with the error variant,   *)
(* or "Panic".  `board` is NoBoard until a position is constructed.  The    *)
(* caller then prints the position as a FEN string, `emitted`.             *)
(***************************************************************************)
\* str::split_whitespace: the maximal runs of characters other than " ".
SplitWhitespace(s) ==
    LET starts == {i \in DOMAIN s : s[i] # " " /\ (i = 1 \/ s[i - 1] = " ")}
        ends == {i \in DOMAIN s : s[i] # " " /\ (i = Len(s) \/ s[i + 1] = " ")}
        NthOf(set, n) == CHOOSE i \in set : Cardinality({j \in set : j <= i}) = n
    IN  [n \in 1 .. Cardinality(starts) |->
            SubSeq(s, NthOf(starts, n), NthOf(ends, n))]

\* Color::from_str: "w" is White, "b" is Black.
ColorFromStr(s) ==
    IF s = <<"w">> THEN [val |-> White, err |-> ""]
    ELSE IF s = <<"b">> THEN [val |-> Black, err |-> ""]
    ELSE [val |-> ColorNone, err |-> "ColorParseError"]

FileFromStr(s) ==
    LET FileChars == <<"a", "b", "c", "d", "e", "f", "g", "h">>
    IN  IF Len(s) # 1 THEN [val |-> FileNone, err |-> "WrongStringSize"]
        ELSE IF s[1] \notin SeqRange(FileChars)
        THEN [val |-> FileNone, err |-> "InvalidFileString"]
        ELSE [val |-> EnumFrom(IndexIn(FileChars, s[1]) - 1), err |-> ""]

RankFromStr(s) ==
    IF Len(s) # 1 THEN [val |-> RankNone, err |-> "WrongStringSize"]
    ELSE IF s[1] \notin SeqRange(DigitChars)
    THEN [val |-> RankNone, err |-> "InvalidRankString"]
    ELSE [val |-> EnumFrom(7 - (IndexIn(DigitChars, s[1]) - 1)), err |-> ""]

SquareFromStr(s) ==
    LET file == FileFromStr(SubSeq(s, 1, 1))
        rank == RankFromStr(SubSeq(s, 2, Len(s)))
    IN  IF s = <<"-">> THEN [val |-> SquareNone, err |-> ""]
        ELSE IF Len(s) # 2 THEN [val |-> SquareNone, err |-> "WrongStringSize"]
        ELSE IF file.err # "" THEN [val |-> SquareNone, err |-> "FileParseError"]
        ELSE IF rank.err # "" THEN [val |-> SquareNone, err |-> "RankParseError"]
        ELSE [val |-> SquareNew(file.val, rank.val), err |-> ""]

\* The value of a string of decimal digits.
RECURSIVE DecValue(_)
DecValue(s) ==
    IF s = <<>> THEN 0
    ELSE LET DecChars == <<"0", "1", "2", "3", "4", "5", "6", "7", "8", "9">>
         IN  DecValue(SubSeq(s, 1, Len(s) - 1)) * 10
                 + IndexIn(DecChars, s[Len(s)]) - 1

\* str::parse::<u8> and str::parse::<u16>: an optional "+", then one or
\* more decimal digits of a value up to max.
ParseUInt(s, max) ==
    LET digits == IF s # <<>> /\ s[1] = "+" THEN Tail(s) ELSE s
    IN  IF s = <<>> THEN [val |-> 0, err |-> "Empty"]
        ELSE IF digits = <<>> \/ \E i \in DOMAIN digits :
                    digits[i] \notin {"0"} \cup SeqRange(DigitChars) \cup {"9"}
        THEN [val |-> 0, err |-> "InvalidDigit"]
        ELSE IF DecValue(digits) > max THEN [val |-> 0, err |-> "PosOverflow"]
        ELSE [val |-> DecValue(digits), err |-> ""]

FENFromStr(s) ==
    LET fields == SplitWhitespace(s)
        position == MailboxFromStr(fields[1])
        side_to_move == ColorFromStr(fields[2])
        en_pass_square == SquareFromStr(fields[4])
        half_move_clock == ParseUInt(fields[5], 255)
        full_move_count == ParseUInt(fields[6], 65535)
        Err(variant, err) == [res |-> "Err", variant |-> variant, err |-> err]
    IN  IF Len(fields) # 6 THEN Err("WrongFieldNumber", "")
        ELSE IF position.err = "panic" THEN [res |-> "Panic"]
        ELSE IF position.err # "" THEN Err("MailboxParseError", position.err)
        ELSE IF side_to_move.err # ""
        THEN Err("SideToMoveParseError", side_to_move.err)
        ELSE IF en_pass_square.err # ""
        THEN Err("EnPassantSqParseError", en_pass_square.err)
        ELSE IF half_move_clock.err # ""
        THEN Err("HalfMoveClockParseError", half_move_clock.err)
        ELSE IF full_move_count.err # ""
        THEN Err("FullMoveClockParseError", full_move_count.err)
        ELSE [res |-> "Ok",
              fen |-> [position |-> position.mailbox,
                       side_to_move |-> side_to_move.val,
                       castling_rights |-> RightsAll,
                       en_pass_square |-> en_pass_square.val,
                       half_move_clock |-> half_move_clock.val,
                       full_move_count |-> full_move_count.val]]

\* No position has been constructed.
NoBoard == <<>>

\* Piece placements the caller passes: CastlePlacement, StartPlacement,
\* 4k3/8/8/8/8/8/8/4K3 (f1, g1 and h1 are empty) and
\* 4k3P/8/8/8/8/8/8/4K3 (nine files in rank 8 through a ninth letter),
\* 4k3/8/8/8/8/8/8/4K3P (nine files in rank 1 through a ninth letter),
\* 4k3/8/8/8/8/8/8/4K4 (nine files in rank 1 through a digit),
\* 4k3/8/8/8/8/8/8/4K2 (seven files in rank 1),
\* 4k3/8/8/8/8/8/8/4Kx2 (a letter that names no piece),
\* 4k3/8/8/8/8/8/8/4K3/8 (nine ranks),
\* 4k3/8/8/8/8/8/4K3 (seven ranks).
ParsePlacements ==
    {CastlePlacement, StartPlacement,
     <<"4", "k", "3", "/", "8", "/", "8", "/", "8", "/", "8", "/", "8", "/",
       "8", "/", "4", "K", "3">>,
     <<"4", "k", "3", "P", "/", "8", "/", "8", "/", "8", "/", "8", "/", "8",
       "/", "8", "/", "4", "K", "3">>,
     <<"4", "k", "3", "/", "8", "/", "8", "/", "8", "/", "8", "/", "8", "/",
       "8", "/", "4", "K", "3", "P">>,
     <<"4", "k", "3", "/", "8", "/", "8", "/", "8", "/", "8", "/", "8", "/",
       "8", "/", "4", "K", "4">>,
     <<"4", "k", "3", "/", "8", "/", "8", "/", "8", "/", "8", "/", "8", "/",
       "8", "/", "4", "K", "2">>,
     <<"4", "k", "3", "/", "8", "/", "8", "/", "8", "/", "8", "/", "8", "/",
       "8", "/", "4", "K", "x", "2">>,
     <<"4", "k", "3", "/", "8", "/", "8", "/", "8", "/", "8", "/", "8", "/",
       "8", "/", "4", "K", "3", "/", "8">>,
     <<"4", "k", "3", "/", "8", "/", "8", "/", "8", "/", "8", "/", "8", "/",
       "4", "K", "3">>}

\* The other five fields the caller passes, the first of each the field of
\* main.rs 7 (castling: KQkq, -, K, kq, X; en passant: -, e3, e9, x).
ParseFields ==
    <<{<<"w">>, <<"b">>, <<"x">>},
      {<<"K", "Q", "k", "q">>, <<"-">>, <<"K">>, <<"k", "q">>, <<"X">>},
      {<<"-">>, <<"e", "3">>, <<"e", "9">>, <<"x">>},
      {<<"0">>, <<"2", "5", "6">>, <<"x">>},
      {<<"1">>, <<"1", "2">>, <<"0">>, <<"4", "0", "0", "0", "0">>, <<"x">>}>>

JoinFields(fields) ==
    ConcatAll([i \in DOMAIN fields |->
                  IF i = 1 THEN fields[i] ELSE <<" ">> \o fields[i]])

\* The strings the caller passes: six fields joined by one blank, and the
\* start position with five fields, with seven, and with more blanks.
ParseInputs ==
    {JoinFields(<<p, f[1], f[2], f[3], f[4], f[5]>>) :
        p \in ParsePlacements,
        f \in ParseFields[1] \X ParseFields[2] \X ParseFields[3]
                \X ParseFields[4] \X ParseFields[5]}
    \cup {JoinFields(<<StartPlacement, <<"w">>, <<"-">>, <<"-">>, <<"0">>>>),
          JoinFields(<<StartPlacement, <<"w">>, <<"-">>, <<"-">>, <<"0">>,
                       <<"1">>, <<"1">>>>),
          JoinFields(<<<<" ">> \o StartPlacement, <<" ", "w">>, <<"-">>,
                       <<"-">>, <<"0">>, <<"1", " ">>>>)}

ParseInit ==
    /\ board = NoBoard
    /\ made = 0
    /\ last_op = "none"
    /\ pf = PerftIdle
    /\ \E s \in ParseInputs :
           parsed = [s |-> s, out |-> [res |-> "call"], emitted |-> <<>>]
    /\ call = <<>>

FromStr ==
    /\ parsed.out.res = "call"
    /\ LET out == FENFromStr(parsed.s)
       IN  /\ parsed' = [parsed EXCEPT !.out = out]
           /\ IF out.res = "Ok"
              THEN LET b == BoardFromFEN(out.fen)
                   IN  board' \in {b} \cup (IF b.overflowed THEN {Panic(b)} ELSE {})
              ELSE board' = board
           /\ last_op' = IF out.res = "Ok" THEN "new" ELSE last_op
    /\ UNCHANGED <<made, pf, call>>

\* Display for Mailbox (mailbox.rs 93-132), square by square: the count of
\* empty squares is written before a piece and at the start of a rank.
MailboxDisplay(mailbox) ==
    LET empty_counter(square) ==
            LET run == {n \in 0 .. FileOf(square) :
                           \A t \in (square - n) .. (square - 1) :
                               mailbox[t] = CPNone}
                prev == {n \in 0 .. FileN :
                            /\ n <= square
                            /\ \A t \in (square - n) .. (square - 1) :
                                   mailbox[t] = CPNone}
            IN  IF FileOf(square) = FileA
                THEN CHOOSE n \in prev : \A k \in prev : k <= n
                ELSE CHOOSE n \in run : \A k \in run : k <= n
        crossed_edge(square) == FileOf(square) = FileA
        Rep(square) ==
            (IF /\ empty_counter(square) > 0
                /\ (mailbox[square] # CPNone \/ crossed_edge(square))
             THEN <<DigitChars[empty_counter(square)]>> ELSE <<>>)
            \o (IF crossed_edge(square) /\ square # 0 THEN <<"/">> ELSE <<>>)
            \o (IF mailbox[square] # CPNone
                THEN <<PieceChars[mailbox[square] + 1]>> ELSE <<>>)
    IN  ConcatAll([i \in 1 .. SquareN |-> Rep(i - 1)])

\* Display for Square (square.rs 184-192), File (251-259), Rank (318-326).
SquareDisplay(square) ==
    IF square = SquareNone THEN <<"-">>
    ELSE <<<<"a", "b", "c", "d", "e", "f", "g", "h">>[FileOf(square) + 1],
           DigitChars[8 - RankOf(square)]>>

\* Display for Color: "w" for White, "b" for Black.
ColorDisplay(color) == IF color = White THEN <<"w">> ELSE <<"b">>

\* to_string of an unsigned integer.
RECURSIVE DecString(_)
DecString(n) ==
    LET DecChars == <<"0", "1", "2", "3", "4", "5", "6", "7", "8", "9">>
    IN  IF n < 10 THEN <<DecChars[n + 1]>>
        ELSE DecString(n \div 10) \o <<DecChars[(n % 10) + 1]>>

\* From<&Board> for FEN (fen.rs 39-50).
FENFromBoard(b) ==
    [position |-> b.mailbox,
     side_to_move |-> b.side_to_mv,
     castling_rights |-> {SideColor(Black, SideA)},
     en_pass_square |-> b.enp_target,
     half_move_clock |-> b.draw_clock,
     full_move_count |-> (b.plys_count \div 2) + 1]

\* Display for FEN (fen.rs 52-64): "{} {} cas {} {} {}".
FENDisplay(fen) ==
    JoinFields(<<MailboxDisplay(fen.position),
                 ColorDisplay(fen.side_to_move),
                 <<"c", "a", "s">>,
                 SquareDisplay(fen.en_pass_square),
                 DecString(fen.half_move_clock),
                 DecString(fen.full_move_count)>>)

\* FEN::from(&board).to_string() of the position just constructed.
EmitFEN ==
    /\ parsed.out.res = "Ok" /\ parsed.emitted = <<>>
    /\ ~board.panicked
    /\ parsed' = [parsed EXCEPT !.emitted = FENDisplay(FENFromBoard(board))]
    /\ UNCHANGED <<board, made, last_op, pf, call>>

SpecParse == ParseInit /\ [][FromStr \/ EmitFEN]_vars

(***************************************************************************)
(* A caller of the constructors of move.rs and piece.rs: `call` holds the  *)
(* function called and its arguments, then the value returned (`ret`, once *)
(* `done`) and, for a Move, the text its Display writes.                   *)
(***************************************************************************)
\* Display for Move (move.rs 112-116): "{}{}" of source and target.
MoveDisplay(m) == SquareDisplay(MoveSource(m)) \o SquareDisplay(MoveTarget(m))

\* Move::new of two squares and a flag, Move::new_with_promotion of two
\* squares and a promotion piece, ColoredPiece::new of a piece and a color.
CallInputs ==
    {[fn |-> "Move::new", args |-> <<s, t, f>>] :
        s \in Squares, t \in Squares, f \in Normal .. EnPassant}
    \cup {[fn |-> "Move::new_with_promotion", args |-> <<s, t, p>>] :
             s \in Squares, t \in Squares, p \in Knight .. Queen}
    \cup {[fn |-> "ColoredPiece::new", args |-> <<p, c>>] :
             p \in Pawn .. King, c \in {White, Black}}

CallsInit ==
    /\ board = NoBoard
    /\ made = 0
    /\ last_op = "none"
    /\ pf = PerftIdle
    /\ parsed = ParseIdle
    /\ \E in \in CallInputs :
           call = [fn |-> in.fn, args |-> in.args, done |-> FALSE, ret |-> 0,
                   text |-> <<>>]

CallNew ==
    /\ ~call.done
    /\ call' = [call EXCEPT
           !.done = TRUE,
           !.ret = CASE call.fn = "Move::new" ->
                            MoveNew(call.args[1], call.args[2], call.args[3])
                     [] call.fn = "Move::new_with_promotion" ->
                            MoveNewWithPromotion(call.args[1], call.args[2],
                                                 call.args[3])
                     [] OTHER -> ColoredPieceNew(call.args[1], call.args[2])]
    /\ UNCHANGED <<board, made, last_op, pf, parsed>>

\* to_string of the move constructed.
CallDisplay ==
    /\ call.done /\ call.fn # "ColoredPiece::new" /\ call.text = <<>>
    /\ call' = [call EXCEPT !.text = MoveDisplay(call.ret)]
    /\ UNCHANGED <<board, made, last_op, pf, parsed>>

SpecCalls == CallsInit /\ [][CallNew \/ CallDisplay]_vars

(***************************************************************************)
(* Properties.                                                             *)
(***************************************************************************)
Live == ~board.panicked

LegalMoves == SeqRange(generate_legal_moves(board))

LastMove == HistoryAt(board, board.plys_count - 1).played_move

PiecesOf(b, piece, color) ==
    {s \in Squares : b.mailbox[s] # CPNone /\ PieceOf(b.mailbox[s]) = piece
                     /\ ColorOf(b.mailbox[s]) = color}

\* The rules' attack relation, read off the mailbox: a piece of color `by`
\* attacks `sq`.
AttackedBy(b, sq, by) ==
    LET occ == {t \in Squares : b.mailbox[t] # CPNone}
    IN  \/ \E s \in PiecesOf(b, Pawn, by) : sq \in pawn_attacks(s, by)
        \/ \E s \in PiecesOf(b, Knight, by) : sq \in knight(s)
        \/ \E s \in PiecesOf(b, Bishop, by) \cup PiecesOf(b, Queen, by) :
               sq \in bishop(s, occ)
        \/ \E s \in PiecesOf(b, Rook, by) \cup PiecesOf(b, Queen, by) :
               sq \in rook(s, occ)
        \/ \E s \in PiecesOf(b, King, by) : sq \in king(s)

CoreFields(b) ==
    <<b.mailbox, b.piece_bbs, b.color_bbs, b.side_to_mv, b.plys_count,
      b.draw_clock, b.enp_target, b.rights, b.hash>>

\* The hash recomputed from scratch: piece-square keys of the occupied
\* squares, side key iff Black is to move, en-passant key iff a target is
\* set, castling key of the current rights.
HashFromScratch(b) ==
    {piece_square_key(b.mailbox[s], s) : s \in {t \in Squares : b.mailbox[t] # CPNone}}
    \cup (IF b.side_to_mv = Black THEN {side_to_move_key} ELSE {})
    \cup (IF b.enp_target # SquareNone THEN {en_passant_key(b.enp_target)} ELSE {})
    \cup {castling_rights_key(b.rights)}

\* C1: make_move(m) of a generated move m followed by undo_move() leaves
\* the mailbox, the piece and color bitboards, side to move, ply count, draw
\* clock, en-passant target, castling rights and hash as they were.
C1_MakeUndoRoundTrip ==
    Live => \A m \in LegalMoves :
                LET b1 == make_move(board, m)
                IN  b1.panicked \/ CoreFields(undo_move(b1)) = CoreFields(board)

\* C2: after every make_move and undo_move the stored hash equals the
\* from-scratch recomputation, with the castling key of the current rights.
C2_HashFromScratch ==
    (Live /\ last_op \in {"make", "undo"}) => board.hash = HashFromScratch(board)

\* C3: after every make_move and undo_move the mailbox and the bitboards
\* agree square by square, occupied = friends + enemies, friends and
\* enemies are disjoint and friends is the side-to-move's color bitboard.
C3_MailboxBitboardsAgree ==
    (Live /\ last_op \in {"make", "undo"}) =>
        /\ \A s \in Squares :
               LET ps == {p \in DOMAIN board.piece_bbs : s \in board.piece_bbs[p]}
                   cs == {c \in DOMAIN board.color_bbs : s \in board.color_bbs[c]}
               IN  IF board.mailbox[s] = CPNone THEN ps = {} /\ cs = {}
                   ELSE /\ ps = {PieceOf(board.mailbox[s])}
                        /\ cs = {ColorOf(board.mailbox[s])}
        /\ board.occupied = board.friends \cup board.enemies
        /\ board.friends \cap board.enemies = {}
        /\ board.friends = board.color_bbs[board.side_to_mv]

\* C3 witness: a castling move has just been made.
C3_Witness == Live /\ last_op = "make" /\ MoveFlags(LastMove) = Castle

\* C4: exactly one white king and one black king are on the board after any
\* sequence of make_move of generated moves and undo_move.
C4_OneKingEach ==
    Live => /\ Cardinality(PiecesOf(board, King, White)) = 1
            /\ Cardinality(PiecesOf(board, King, Black)) = 1

\* C5: after make_move of a generated move the king of the side that just
\* moved is not attacked by any enemy piece.
C5_MoverNotInCheck ==
    (Live /\ last_op = "make") =>
        \A k \in PiecesOf(board, King, Not(board.side_to_mv)) :
            ~AttackedBy(board, k, board.side_to_mv)

\* C6: the quiet moves and the noisy moves are disjoint and their union is
\* the set of legal moves.
C6_QuietNoisyPartition ==
    Live => LET quiet == SeqRange(generate_quiet_moves(board))
                noisy == SeqRange(generate_noisy_moves(board))
            IN  quiet \cap noisy = {} /\ quiet \cup noisy = LegalMoves

\* C6 witness: a position reached by a move in which both lists are non-empty.
C6_Witness ==
    /\ Live /\ made > 0
    /\ generate_quiet_moves(board) # <<>>
    /\ generate_noisy_moves(board) # <<>>

\* C7: a pawn of the side to move that is not on the line pin mask and
\* diagonally attacks an enemy-occupied square in check_mask (on its pin
\* diagonal if it is diagonally pinned) has that capture among the legal
\* moves, as four promotions when it lands on the last rank.
C7_PawnCapturesGenerated ==
    Live =>
        LET us == board.side_to_mv
            pins == generate_pin_masks(board)
        IN  \A s \in PiecesOf(board, Pawn, us) \ pins.l :
            \A t \in (pawn_attacks(s, us) \cap board.enemies) \cap board.check_mask :
                (s \in pins.d => t \in pins.d) =>
                    IF RankOf(t) = RankRelative(RankEighth, us)
                    THEN \A p \in {Knight, Bishop, Rook, Queen} :
                             MoveNewWithPromotion(s, t, p) \in LegalMoves
                    ELSE MoveNew(s, t, Normal) \in LegalMoves

\* C8: a double pawn push is emitted only if the pawn stands on its relative
\* second rank and the square one ahead and the square two ahead are empty.
C8_DoublePushNeedsEmptyPath ==
    Live =>
        LET us == board.side_to_mv
        IN  \A m \in LegalMoves :
                LET s == MoveSource(m)
                    mid == SquareUp(s, us)
                IN  (/\ MoveFlags(m) = Normal
                     /\ PieceOf(board.mailbox[s]) = Pawn
                     /\ mid \in Squares
                     /\ MoveTarget(m) = SquareUp(mid, us))
                    => /\ RankOf(mid) = RankRelative(RankThird, us)
                       /\ board.mailbox[mid] = CPNone
                       /\ board.mailbox[MoveTarget(m)] = CPNone

\* C9: perft of the start position returns 20 at depth 1, 400 at depth 2
\* and 8902 at depth 3.
C9_PerftCounts ==
    pf.pc = "done" =>
        /\ pf.depth = 1 => pf.ret = 20
        /\ pf.depth = 2 => pf.ret = 400
        /\ pf.depth = 3 => pf.ret = 8902

\* C10: in the start position generate_legal_moves returns exactly 20
\* moves, 16 pawn pushes and 4 knight moves.
C10_StartPositionTwentyMoves ==
    (Live /\ made = 0) =>
        LET ms == generate_legal_moves(board)
            By(piece) == {m \in SeqRange(ms) :
                            /\ PieceOf(board.mailbox[MoveSource(m)]) = piece
                            /\ MoveFlags(m) = Normal
                            /\ board.mailbox[MoveTarget(m)] = CPNone}
        IN  /\ Len(ms) = 20
            /\ Cardinality(By(Pawn)) = 16
            /\ Cardinality(By(Knight)) = 4
            /\ \A m \in By(Pawn) : FileOf(MoveSource(m)) = FileOf(MoveTarget(m))

\* C10 witness: perft at depth 1 has returned the length of the list.
C10_Witness == pf.pc = "done" /\ pf.depth = 1 /\ pf.bulk /\ pf.ret = 20

\* The moves played so far, oldest first, read from the history.
Played == [i \in 1 .. board.plys_count |-> HistoryAt(board, i - 1).played_move]

\* C11: after f2f3, e7e5, g2g4, d8h4 from the start position is_check() is
\* true, generate_legal_moves() is empty and is_mated() is true.
C11_FoolsMate ==
    (Live /\ Played = MainLine) =>
        /\ is_check(board)
        /\ generate_legal_moves(board) = <<>>
        /\ is_mated(board)

\* C11 witness: the four moves have been made and the queen h4 gives check.
C11_Witness ==
    /\ Live /\ made = 4 /\ last_op = "make" /\ Played = MainLine
    /\ board.checkers = {39}

\* C12: when the en-passant target is set and a pawn of the side to move
\* attacks it, the en-passant capture (flag EnPassant) is among the legal
\* moves, unless removing both pawns opens the king's rank to an enemy rook
\* or queen.
C12_EnPassantGenerated ==
    (Live /\ board.enp_target # SquareNone) =>
        LET us == board.side_to_mv
            ep == board.enp_target
            occ == {t \in Squares : board.mailbox[t] # CPNone}
            Exposed(s) ==
                \E k \in PiecesOf(board, King, us) :
                \E x \in PiecesOf(board, Rook, Not(us)) \cup PiecesOf(board, Queen, Not(us)) :
                    /\ RankOf(x) = RankOf(k)
                    /\ x \in rook(k, occ \ {s, SquareDown(ep, us)})
        IN  \A s \in PiecesOf(board, Pawn, us) :
                (ep \in pawn_attacks(s, us) /\ ~Exposed(s))
                    => MoveNew(s, ep, EnPassant) \in LegalMoves

\* C13: a castling move is emitted only by a generation with quiets enabled
\* and only when the side to move is not in check.
C13_NoCastlingInCheck ==
    Live =>
        /\ \A m \in SeqRange(generate_noisy_moves(board)) : MoveFlags(m) # Castle
        /\ board.checkers # EMPTY =>
               \A m \in LegalMoves \cup SeqRange(generate_quiet_moves(board)) :
                   MoveFlags(m) # Castle

\* The knights of the side to move that are the single friendly piece
\* between their king and an enemy rook or queen on a rank or file, or an
\* enemy bishop or queen on a diagonal; with `alone`, the knight is the
\* only piece at all between the two.
KnightsBetween(alone) ==
    LET us == board.side_to_mv
        them == Not(us)
        OwnOn(sqs) == {t \in sqs : board.mailbox[t] # CPNone /\ ColorOf(board.mailbox[t]) = us}
        AnyOn(sqs) == {t \in sqs : board.mailbox[t] # CPNone}
        king_sqs == PiecesOf(board, King, us)
        liners == PiecesOf(board, Rook, them) \cup PiecesOf(board, Queen, them)
        diagers == PiecesOf(board, Bishop, them) \cup PiecesOf(board, Queen, them)
        Shields(n, k, x) ==
            /\ OwnOn(Between(k, x)) = {n}
            /\ alone => AnyOn(Between(k, x)) = {n}
    IN  {n \in PiecesOf(board, Knight, us) :
            \E k \in king_sqs :
                \/ \E x \in liners : OnLine(k, x) /\ Shields(n, k, x)
                \/ \E x \in diagers : OnDiag(k, x) /\ Shields(n, k, x)}

\* C14 as stated: a knight that is the single friendly piece on the line
\* between its king and an enemy rook, queen or (diagonal) bishop is the
\* source of no legal move.
C14_KnightBetweenNoMoves ==
    Live => \A n \in KnightsBetween(FALSE) : \A m \in LegalMoves : MoveSource(m) # n

\* C14 amended: a knight that is the only piece between its king and an
\* enemy rook, queen or (diagonal) bishop is the source of no legal move.
C14_PinnedKnightNoMoves ==
    Live => \A n \in KnightsBetween(TRUE) : \A m \in LegalMoves : MoveSource(m) # n

\* C14 witness: a knight is pinned and the list of legal moves is not empty.
C14_Witness ==
    Live /\ KnightsBetween(TRUE) # {} /\ LegalMoves # {}

\* C15: make_move(m) sets draw_clock to 0 if m captured an enemy piece or
\* moved a pawn and to the previous draw_clock plus one otherwise; a
\* castling move (king to own rook) is neither and increments the clock.
C15_DrawClock ==
    [][(last_op' = "make" /\ ~board'.panicked) =>
          LET m == HistoryAt(board', board.plys_count).played_move
              source_piece == board.mailbox[MoveSource(m)]
              target_piece == board.mailbox[MoveTarget(m)]
              captures == \/ MoveFlags(m) = EnPassant
                          \/ /\ target_piece # CPNone
                             /\ ColorOf(target_piece) = Not(board.side_to_mv)
          IN  board'.draw_clock =
                  IF captures \/ PieceOf(source_piece) = Pawn
                  THEN 0 ELSE board.draw_clock + 1]_vars

\* C16: after make_move the en-passant target is none or a square on
\* rank 3 (Black to move) / rank 6 (White to move); it is set only if the
\* move just made was a pawn double push over that square and a pawn of the
\* side now to move attacks the square.
C16_EnPassantTarget ==
    (Live /\ last_op = "make" /\ board.enp_target # SquareNone) =>
        LET ep == board.enp_target
            us == board.side_to_mv
            source == MoveSource(LastMove)
            target == MoveTarget(LastMove)
        IN  /\ RankOf(ep) = RankRelative(RankThird, Not(us))
            /\ MoveFlags(LastMove) = Normal
            /\ PieceOf(board.mailbox[target]) = Pawn
            /\ FileOf(source) = FileOf(target)
            /\ Abs(RankOf(source) - RankOf(target)) = 2
            /\ ep = SquareDown(target, Not(us))
            /\ \E s \in PiecesOf(board, Pawn, us) : ep \in pawn_attacks(s, us)

\* C16 witness: a double push has just set the en-passant target.
C16_Witness ==
    Live /\ last_op = "make" /\ board.enp_target # SquareNone

\* The squares of the pieces of color by that attack sq, from the mailbox.
Attackers(b, sq, by) ==
    LET occ == {t \in Squares : b.mailbox[t] # CPNone}
    IN  {s \in PiecesOf(b, Pawn, by) : sq \in pawn_attacks(s, by)}
        \cup {s \in PiecesOf(b, Knight, by) : sq \in knight(s)}
        \cup {s \in PiecesOf(b, Bishop, by) \cup PiecesOf(b, Queen, by) :
                 sq \in bishop(s, occ)}
        \cup {s \in PiecesOf(b, Rook, by) \cup PiecesOf(b, Queen, by) :
                 sq \in rook(s, occ)}
        \cup {s \in PiecesOf(b, King, by) : sq \in king(s)}

\* C17: after construction, make_move and undo_move, checkers is the set of
\* enemy pieces attacking the king of the side to move, check_nm is its
\* size and at most 2, and check_mask is UNIVERSE without a checker, the
\* checker and the squares strictly between it and the king with one
\* checker, and EMPTY with two.
C17_CheckMasks ==
    Live =>
        \A k \in PiecesOf(board, King, board.side_to_mv) :
            /\ board.checkers = Attackers(board, k, Not(board.side_to_mv))
            /\ board.check_nm = Cardinality(board.checkers)
            /\ board.check_nm \in 0 .. 2
            /\ board.check_nm = 0 => board.check_mask = UNIVERSE
            /\ board.check_nm = 1 =>
                   \A c \in board.checkers :
                       board.check_mask = {c} \cup Between(c, k)
            /\ board.check_nm = 2 => board.check_mask = EMPTY

\* C17 witness: a move has given check with a sliding piece from a distance,
\* so that the check mask holds the checker and the squares of its ray.
C17_Witness ==
    /\ Live /\ last_op = "make" /\ board.check_nm = 1
    /\ board.check_mask # board.checkers

\* The castling rights a castling field names: K and Q the h-side and
\* a-side right of White, k and q those of Black, "-" none.
RightsNamed(field) ==
    {sc \in RightsAll :
        \E i \in DOMAIN field :
            \/ field[i] = "K" /\ sc = SideColor(White, SideH)
            \/ field[i] = "Q" /\ sc = SideColor(White, SideA)
            \/ field[i] = "k" /\ sc = SideColor(Black, SideH)
            \/ field[i] = "q" /\ sc = SideColor(Black, SideA)}

\* For each "/"-separated rank of a piece placement, the files it describes
\* (one per piece letter, n per digit n) and its piece letters.
RECURSIVE RankData(_)
RankData(s) ==
    IF s = <<>> THEN <<[files |-> 0, pieces |-> 0]>>
    ELSE LET ranks == RankData(SubSeq(s, 1, Len(s) - 1))
             data == s[Len(s)]
         IN  IF data = "/" THEN Append(ranks, [files |-> 0, pieces |-> 0])
             ELSE IF data \in SeqRange(PieceChars)
             THEN [ranks EXCEPT ![Len(ranks)] =
                      [files |-> @.files + 1, pieces |-> @.pieces + 1]]
             ELSE IF data \in SeqRange(DigitChars)
             THEN [ranks EXCEPT ![Len(ranks)].files = @ + IndexIn(DigitChars, data)]
             ELSE ranks

\* The k-th FEN field is well formed: eight ranks of eight files; "w" or
\* "b"; "-" or a subset of KQkq; "-" or an algebraic square; a decimal
\* number that fits the halfmove clock (u8), the fullmove number (u16).
FieldValid(k, field) ==
    LET Decimal(max) ==
            /\ field # <<>>
            /\ \A i \in DOMAIN field :
                   field[i] \in {"0", "9"} \cup SeqRange(DigitChars)
            /\ DecValue(field) <= max
    IN  CASE k = 1 ->
                 /\ \A i \in DOMAIN field :
                        field[i] \in {"/"} \cup SeqRange(PieceChars)
                                           \cup SeqRange(DigitChars)
                 /\ Len(RankData(field)) = RankN
                 /\ \A r \in 1 .. RankN : RankData(field)[r].files = FileN
          [] k = 2 -> field \in {<<"w">>, <<"b">>}
          [] k = 3 ->
                 \/ field = <<"-">>
                 \/ /\ field # <<>>
                    /\ \A i \in DOMAIN field : field[i] \in {"K", "Q", "k", "q"}
                    /\ \A i, j \in DOMAIN field : i # j => field[i] # field[j]
          [] k = 4 ->
                 \/ field = <<"-">>
                 \/ /\ Len(field) = 2
                    /\ field[1] \in {"a", "b", "c", "d", "e", "f", "g", "h"}
                    /\ field[2] \in SeqRange(DigitChars)
          [] k = 5 -> Decimal(255)
          [] OTHER -> Decimal(65535)

\* C18: the castling rights of a parsed FEN value and of the Position built
\* from it are exactly those its castling field names, and no castling move
\* is generated for a right the field does not name.
C18_CastlingFieldRights ==
    LET field == SplitWhitespace(parsed.s)[3]
    IN  (parsed.out.res = "Ok" /\ FieldValid(3, field) /\ Live) =>
            /\ parsed.out.fen.castling_rights = RightsNamed(field)
            /\ board.rights = RightsNamed(field)
            /\ \A m \in LegalMoves :
                   MoveFlags(m) = Castle =>
                       SideColorFromSqs(MoveSource(m), MoveTarget(m))
                           \in RightsNamed(field)

\* C19: FEN parsing returns WrongFieldNumber for a string that has not six
\* fields and an error for a string with an invalid field; a string whose
\* only invalid field is the castling field gets the castling error.
C19_InvalidInputRejected ==
    LET fields == SplitWhitespace(parsed.s)
        out == parsed.out
    IN  out.res \notin {"idle", "call"} =>
            /\ Len(fields) # 6 =>
                   out.res = "Err" /\ out.variant = "WrongFieldNumber"
            /\ (/\ Len(fields) = 6
                /\ \E k \in 1 .. 6 : ~FieldValid(k, fields[k])) =>
                   out.res = "Err"
            /\ (/\ Len(fields) = 6
                /\ \A k \in 1 .. 6 : k = 3 <=> ~FieldValid(k, fields[k])) =>
                   out.res = "Err" /\ out.variant = "CastlingParseError"

\* C20: a piece placement with a rank that describes more than 8 files is
\* rejected with an error; in an accepted placement every rank describes
\* exactly 8 files and holds exactly the pieces its own letters name.
C20_RankDescribesEightFiles ==
    LET fields == SplitWhitespace(parsed.s)
        out == parsed.out
        ranks == RankData(fields[1])
    IN  (out.res \notin {"idle", "call"} /\ Len(fields) = 6) =>
            /\ (\E r \in DOMAIN ranks : ranks[r].files > FileN) =>
                   out.res = "Err" /\ out.variant = "MailboxParseError"
            /\ out.res = "Ok" =>
                   \A r \in DOMAIN ranks :
                       /\ ranks[r].files = FileN
                       /\ Cardinality({s \in BBRank(r - 1) :
                              out.fen.position[s] # CPNone}) = ranks[r].pieces

\* C21: the piece placement emitted for a mailbox has 8 ranks of exactly 8
\* files each, and parsing it returns the mailbox.
C21_PlacementRoundTrip ==
    parsed.emitted # <<>> =>
        LET field == SplitWhitespace(parsed.emitted)[1]
            ranks == RankData(field)
            back == MailboxFromStr(field)
        IN  /\ Len(ranks) = RankN
            /\ \A r \in DOMAIN ranks : ranks[r].files = FileN
            /\ back.err = ""
            /\ back.mailbox = board.mailbox

\* C23: for every fullmove number the parser accepts, the position is
\* constructed and plys = (fullmove - 1) * 2 + side-to-move is computed
\* without underflow or overflow of its 16 bits.
C23_PlysFitsSixteenBits ==
    parsed.out.res = "Ok" =>
        /\ ~board.panicked
        /\ ~board.overflowed
        /\ board.plys_count = (parsed.out.fen.full_move_count - 1) * 2
                                  + parsed.out.fen.side_to_move

\* C22: the FEN emitted for the position constructed from an accepted FEN
\* has the piece-placement, side-to-move, en-passant, halfmove-clock and
\* fullmove-number fields of the input.
C22_FENRoundTrip ==
    parsed.emitted # <<>> =>
        LET input == SplitWhitespace(parsed.s)
            output == SplitWhitespace(parsed.emitted)
        IN  /\ Len(output) = 6
            /\ \A k \in {1, 2, 4, 5, 6} : output[k] = input[k]

\* C24: the text of a move is its source square followed by its target
\* square, followed for a move with flag Promotion by the lower-case letter
\* of the promotion piece.
C24_MoveText ==
    (call # <<>> /\ call.text # <<>>) =>
        call.text = SquareDisplay(call.args[1]) \o SquareDisplay(call.args[2])
                    \o (IF MoveFlags(call.ret) = Promotion
                        THEN <<<<"n", "b", "r", "q">>[MovePromot(call.ret) - Knight + 1]>>
                        ELSE <<>>)

\* C25: Move::new(s, t, f) decodes to s, t and f and is NULL only for
\* s = t = A8 and f = Normal; Move::new_with_promotion(s, t, p) decodes to
\* s, t, p and the flag Promotion.
C25_MoveEncodingRoundTrip ==
    (call # <<>> /\ call.done) =>
        /\ call.fn = "Move::new" =>
               /\ MoveSource(call.ret) = call.args[1]
               /\ MoveTarget(call.ret) = call.args[2]
               /\ MoveFlags(call.ret) = call.args[3]
               /\ call.ret = MoveNULL <=> call.args = <<0, 0, Normal>>
        /\ call.fn = "Move::new_with_promotion" =>
               /\ MoveSource(call.ret) = call.args[1]
               /\ MoveTarget(call.ret) = call.args[2]
               /\ MovePromot(call.ret) = call.args[3]
               /\ MoveFlags(call.ret) = Promotion
               /\ call.ret # MoveNULL

\* C25 witness: Move::new(H1, H1, EnPassant) has been constructed.
C25_Witness ==
    /\ call # <<>> /\ call.done /\ call.fn = "Move::new"
    /\ call.args = <<SquareN - 1, SquareN - 1, EnPassant>>

\* C28: ColoredPiece::new(p, c) has piece p and color c, and no other pair
\* of a piece kind and a color gives the same colored piece.
C28_ColoredPieceRoundTrip ==
    (call # <<>> /\ call.done /\ call.fn = "ColoredPiece::new") =>
        /\ PieceOf(call.ret) = call.args[1]
        /\ ColorOf(call.ret) = call.args[2]
        /\ \A p \in Pawn .. King, c \in {White, Black} :
               ColoredPieceNew(p, c) = call.ret => <<p, c>> = call.args

\* C26: right after make_move(m), history[plys - 1] holds m, the piece
\* that stood on m's target, and the castling rights, en-passant target,
\* draw clock and hash of the position m was played in.
C26_HistorySnapshot ==
    [][(last_op' = "make" /\ ~board'.panicked) =>
          LET state == HistoryAt(board', board'.plys_count - 1)
          IN  /\ board'.plys_count - 1 = board.plys_count
              /\ state.played_move \in LegalMoves
              /\ board' = make_move(board, state.played_move)
              /\ state.captured_piece = board.mailbox[MoveTarget(state.played_move)]
              /\ state.castling_r = board.rights
              /\ state.enp_target = board.enp_target
              /\ state.draw_clock = board.draw_clock
              /\ state.hash = board.hash]_vars

\* C27: make_move of a move with flag Promotion, by White or by Black,
\* leaves on the target square a piece of the move's promotion kind and of
\* the mover's color, and leaves the source square without the pawn.
C27_PromotionPlacesPiece ==
    [][(last_op' = "make" /\ ~board'.panicked) =>
          LET m == HistoryAt(board', board.plys_count).played_move
              promoted == board'.mailbox[MoveTarget(m)]
          IN  MoveFlags(m) = Promotion =>
                  /\ promoted # CPNone
                  /\ PieceOf(promoted) = MovePromot(m)
                  /\ ColorOf(promoted) = board.side_to_mv
                  /\ board'.mailbox[MoveSource(m)] = CPNone
                  /\ MoveSource(m) \notin board'.piece_bbs[Pawn]]_vars

\* C29: make_move removes from the castling rights exactly the rights in the
\* update masks of the move's source and target squares and adds none; a
\* king move removes both rights of the mover, a rook that leaves its home
\* square or is captured on it removes that right; undo_move of the move
\* restores the rights held before it.
C29_CastlingRightsUpdate ==
    [][(last_op' = "make" /\ ~board'.panicked) =>
          LET m == HistoryAt(board', board.plys_count).played_move
              source == MoveSource(m)
              target == MoveTarget(m)
              us == board.side_to_mv
          IN  /\ board'.rights =
                     board.rights \ (get_updates(source) \cup get_updates(target))
              /\ board'.rights \subseteq board.rights
              /\ PieceOf(board.mailbox[source]) = King =>
                     \A sc \in board'.rights : sc \div 2 # us
              /\ \A sc \in RightsAll :
                     (\E square \in {source, target} :
                         /\ square = InfoRook(sc)
                         /\ PieceOf(board.mailbox[square]) = Rook
                         /\ ColorOf(board.mailbox[square]) = sc \div 2)
                     => sc \notin board'.rights
              /\ undo_move(board').rights = board.rights]_vars

\* C30: draw_clock stays within 0..255 without overflow: make_move of a
\* move that neither captures nor moves a pawn, from any position (also one
\* built from a FEN with halfmove clock 255), does not abort at the
\* increment and leaves the previous draw_clock plus one, never a wrapped 0.
C30_DrawClockNoOverflow ==
    [][last_op' = "make" =>
          IF board'.panicked
          THEN board.draw_clock < 2 ^ 8 - 1
          ELSE LET m == HistoryAt(board', board.plys_count).played_move
                   source_piece == board.mailbox[MoveSource(m)]
                   target_piece == board.mailbox[MoveTarget(m)]
                   captures == \/ MoveFlags(m) = EnPassant
                               \/ /\ target_piece # CPNone
                                  /\ ColorOf(target_piece) = Not(board.side_to_mv)
               IN  (~captures /\ PieceOf(source_piece) # Pawn) =>
                       /\ board'.draw_clock = board.draw_clock + 1
                       /\ board'.draw_clock \in 0 .. (2 ^ 8 - 1)]_vars

\* The pins on the side to move, read off the mailbox: `sq` holds the only
\* piece between the king and an enemy rook or queen on a rank or file
\* (diag FALSE) or an enemy bishop or queen on a diagonal (diag TRUE);
\* `line` is the pinner's square and the squares between pinner and king.
PinsOf(b) ==
    LET us == b.side_to_mv
        them == Not(us)
        AnyOn(sqs) == {t \in sqs : b.mailbox[t] # CPNone}
        liners == PiecesOf(b, Rook, them) \cup PiecesOf(b, Queen, them)
        diagers == PiecesOf(b, Bishop, them) \cup PiecesOf(b, Queen, them)
        Pinned(k, x, diag) ==
            {[sq |-> s, line |-> Between(k, x) \cup {x}, diag |-> diag] :
             s \in {t \in AnyOn(Between(k, x)) :
                       AnyOn(Between(k, x)) = {t} /\ ColorOf(b.mailbox[t]) = us}}
    IN  UNION {UNION {Pinned(k, x, FALSE) : x \in {y \in liners : OnLine(k, y)}}
               \cup UNION {Pinned(k, x, TRUE) : x \in {y \in diagers : OnDiag(k, y)}} :
               k \in PiecesOf(b, King, us)}

\* C31: every move emitted for a pinned bishop, rook or queen ends on the
\* pinner's square or between pinner and king, also when several pieces
\* are pinned at once; a piece pinned on a rank or file emits no diagonal
\* move and a diagonally pinned piece no move along a rank or file.
C31_PinnedSliderStaysOnLine ==
    Live =>
        \A p \in PinsOf(board) :
            PieceOf(board.mailbox[p.sq]) \in {Bishop, Rook, Queen} =>
                \A m \in LegalMoves :
                    MoveSource(m) = p.sq =>
                        /\ MoveTarget(m) \in p.line
                        /\ IF p.diag THEN OnDiag(p.sq, MoveTarget(m))
                           ELSE OnLine(p.sq, MoveTarget(m))

\* C31 witness: a rook pinned on a file and a bishop pinned on a diagonal
\* both have moves while at least four pieces are pinned, in a position
\* the caller came back to with undo_move.
C31_Witness ==
    /\ Live /\ last_op = "undo"
    /\ Cardinality(PinsOf(board)) >= 4
    /\ \E p, q \in PinsOf(board) :
           /\ ~p.diag /\ PieceOf(board.mailbox[p.sq]) = Rook
           /\ q.diag /\ PieceOf(board.mailbox[q.sq]) = Bishop
           /\ \E m, n \in LegalMoves : MoveSource(m) = p.sq /\ MoveSource(n) = q.sq

\* C32: pawn pushes respect pins: a diagonally pinned pawn emits no push,
\* and a pawn pinned on a rank or file emits a single or double push only
\* to a square of its pin line (the pinner's square or a square between
\* pinner and king).
C32_PinnedPawnPush ==
    Live =>
        \A p \in PinsOf(board) :
            PieceOf(board.mailbox[p.sq]) = Pawn =>
                \A m \in LegalMoves :
                    (MoveSource(m) = p.sq /\ FileOf(MoveTarget(m)) = FileOf(p.sq))
                    => (~p.diag /\ MoveTarget(m) \in p.line)

\* C33: the king moves emitted are exactly the squares next to the king
\* that hold no friendly piece and that no enemy piece attacks once the
\* king is taken off the board, so that a checking slider also attacks
\* the square behind the king.
C33_KingMovesAvoidThreats ==
    Live =>
        LET us == board.side_to_mv
            unkinged(k) == [board EXCEPT !.mailbox[k] = CPNone]
        IN  \A k \in PiecesOf(board, King, us) :
                {MoveTarget(m) : m \in {n \in LegalMoves :
                                           MoveSource(n) = k /\ MoveFlags(n) = Normal}}
                = {t \in king(k) :
                       /\ board.mailbox[t] = CPNone \/ ColorOf(board.mailbox[t]) # us
                       /\ ~AttackedBy(unkinged(k), t, Not(us))}

\* C33 witness: a rook, bishop or queen checks the king along a line, the
\* square behind the king on that line is empty and attacked by no other
\* piece, and the king has a move.
C33_Witness ==
    /\ Live /\ last_op = "make"
    /\ \E k \in PiecesOf(board, King, board.side_to_mv) :
           /\ \E m \in LegalMoves : MoveSource(m) = k
           /\ \E x \in Squares \ {k}, t \in king(k) :
                  /\ board.mailbox[x] # CPNone
                  /\ ColorOf(board.mailbox[x]) = Not(board.side_to_mv)
                  /\ PieceOf(board.mailbox[x]) \in {Bishop, Rook, Queen}
                  /\ k \in Between(x, t)
                  /\ \A y \in Between(x, k) : board.mailbox[y] = CPNone
                  /\ board.mailbox[t] = CPNone
                  /\ ~AttackedBy(board, t, Not(board.side_to_mv))
                  /\ IF OnLine(x, k) THEN PieceOf(board.mailbox[x]) # Bishop
                     ELSE PieceOf(board.mailbox[x]) # Rook

\* C34: make_move adds one to plys_count and flips side_to_mv, undo_move
\* subtracts one and flips back: plys_count is even exactly when White is
\* to move, and plys_count minus the number of moves made and not undone
\* stays the ply count the position was constructed with.
C34_PlysCountAndSide ==
    [][~board'.panicked =>
          LET Even(b) == (b.plys_count % 2 = 0) <=> (b.side_to_mv = White)
          IN  /\ Even(board) /\ Even(board')
              /\ board'.plys_count - made' = board.plys_count - made
              /\ last_op' = "make" =>
                     /\ board'.plys_count = board.plys_count + 1
                     /\ board'.side_to_mv = Not(board.side_to_mv)
              /\ last_op' = "undo" =>
                     /\ board'.plys_count = board.plys_count - 1
                     /\ board'.side_to_mv = Not(board.side_to_mv)]_vars

\* C34 witness: the position constructed with Black to move in move 7
\* (ply 13) after two make_move and one undo_move.
C34_Witness ==
    /\ Live /\ last_op = "undo" /\ made = 1
    /\ board.plys_count = 14 /\ board.side_to_mv = White

\* C35: in a position constructed from an accepted FEN, a make_move made
\* while fewer than 1024 moves have been made since construction indexes
\* the history inside its 1024 entries, and undo_move reads a slot that a
\* make_move has written.
C35_HistoryIndexInRange ==
    [][/\ (last_op' = "make" /\ made < HistoryN) =>
              board.plys_count \in 0 .. (HistoryN - 1)
       /\ last_op' = "undo" =>
              /\ board.plys_count - 1 \in 0 .. (HistoryN - 1)
              /\ board.plys_count - 1 \in DOMAIN board.history]_vars

\* C36: piece-placement parsing succeeds only for a string of exactly eight
\* "/"-separated ranks: a ninth rank after eight full ones yields
\* TooManyFields, and a string of fewer than eight ranks is rejected.
C36_ExactlyEightRanks ==
    LET fields == SplitWhitespace(parsed.s)
        out == parsed.out
        ranks == RankData(fields[1])
    IN  (out.res \notin {"idle", "call"} /\ Len(fields) = 6) =>
            /\ out.res = "Ok" => Len(ranks) = RankN
            /\ (Len(ranks) = RankN + 1 /\ \A r \in 1 .. RankN : ranks[r].files = FileN) =>
                   /\ out.res = "Err" /\ out.variant = "MailboxParseError"
                   /\ out.err = "TooManyFields"
            /\ Len(ranks) < RankN => out.res = "Err"

====
